---- MODULE Spec2Model ----
(***************************************************************************)
(* SentinelAI: login-event ingestion (schema auto-mapping and the three    *)
(* parsers), the identity-theft scoring engine and the DetectionContext    *)
(* that stores events, settings and results and re-derives severities.     *)
(*                                                                         *)
(* Strings are TLA+ strings; a JavaScript number is an integer (times are  *)
(* whole minutes, coordinates are degrees * 10^4), NaN and undefined are   *)
(* explicit values of the same type so that they can be compared.          *)
(***************************************************************************)
EXTENDS Integers, Sequences, FiniteSets, TLC

VARIABLES
    \* ---- parseCsvLine driver
    csvLine,        \* the line handed to parseCsvLine
    csvFields,      \* its result (<<>> before the call)
    csvDone,        \* TRUE once parseCsvLine has returned
    \* ---- schema mapper and parser driver
    hdrs,           \* the raw header list of the dataset under test
    colMapping,     \* the ColumnMapping autoMapColumns returned for hdrs
    parseOut,       \* what the parser returned (or threw) for the document of hdrs
    mapPc,          \* "input", or the call that was made: "map" ("remap" the second time), "csv", "json", "text"
    docText,        \* the text handed to the parser ("" before the call)
    \* ---- detectIdentityTheft driver
    inEvents,       \* the events handed to detectIdentityTheft
    inSettings,     \* the settings handed to it
    sortPick,       \* the order its first sort produced (<<>> before the call)
    outResult,      \* the DetectionResult it returned (Null before the call)
    \* ---- dailyAlertTrend driver
    trendAlerts,    \* the alerts handed to the daily bucketing of detectIdentityTheft
    trendOut,       \* [done, trend]: the dailyAlertTrend it produced, once done
    \* ---- the host
    hostTz,         \* its timezone offset in minutes (getTimezoneOffset)
    \* ---- DetectionProvider
    settings,       \* DetectionSettings
    datasetInfo,    \* DatasetInfo, or Null
    events,         \* the stored LoginEvents
    detectionResult,\* the stored DetectionResult, or Null
    parseError,     \* the error message shown, or NoParseError
    upload,         \* the File of the uploadFile call in flight, or NoUpload
    \* ---- history of the DetectionProvider, read by the properties only
    lastRun,        \* the events, settings and sort order of the last detection
    requested,      \* the thresholds last handed to setSettings
    seen,           \* thresholds -> what liveResult showed when they were first
                    \* requested for the stored result
    revisited,      \* TRUE once thresholds were requested again after others
    \* ---- SystemConfig: the Policy Controls page
    draft           \* the settings being edited, not yet applied

csvVars == <<csvLine, csvFields, csvDone>>
mapVars == <<hdrs, colMapping, parseOut, mapPc, docText>>
detVars == <<inEvents, inSettings, sortPick, outResult>>
trendVars == <<trendAlerts, trendOut>>
ctxVars == <<settings, datasetInfo, events, detectionResult, parseError, upload,
             lastRun, requested, seen, revisited>>
cfgVars == <<draft>>

vars == <<csvVars, mapVars, detVars, trendVars, hostTz, ctxVars, cfgVars>>

otherThanCsv == <<mapVars, detVars, trendVars, hostTz, ctxVars, cfgVars>>
otherThanMap == <<csvVars, detVars, trendVars, hostTz, ctxVars, cfgVars>>
otherThanDet == <<csvVars, mapVars, trendVars, hostTz, ctxVars, cfgVars>>
otherThanTrend == <<csvVars, mapVars, detVars, hostTz, ctxVars, cfgVars>>
otherThanCtx == <<csvVars, mapVars, detVars, trendVars, hostTz, cfgVars>>
otherThanCfg == <<csvVars, mapVars, detVars, trendVars, hostTz, ctxVars>>

(***************************************************************************)
(* String primitives of the JavaScript runtime                             *)
(***************************************************************************)
Char(s, i) == SubSeq(s, i, i)

UpperChars == "ABCDEFGHIJKLMNOPQRSTUVWXYZ"
LowerChars == "abcdefghijklmnopqrstuvwxyz"
DigitChars == "0123456789"

\* the characters of a string, as a set
CharsOf(chars) == {Char(chars, i) : i \in 1..Len(chars)}

UpperSet == CharsOf(UpperChars)
LowerSet == CharsOf(LowerChars)
DigitSet == CharsOf(DigitChars)

IsCharOf(c, chars) == c \in chars

IsWhite(c) == c \in {" ", "\t", "\r", "\n"}

\* String.prototype.toLowerCase, one character
LowerOf == [c \in UpperSet |->
               Char(LowerChars, CHOOSE i \in 1..Len(UpperChars) : Char(UpperChars, i) = c)]

ToLowerChar(c) == IF IsCharOf(c, UpperSet) THEN LowerOf[c] ELSE c

\* a string rebuilt character by character: F(c) replaces each character c
\* (the halves keep the evaluation shallow)
MapChars(s, F(_)) ==
    LET RECURSIVE Go(_, _)
        Go(lo, hi) ==
            IF lo > hi THEN ""
            ELSE IF lo = hi THEN F(Char(s, lo))
            ELSE LET mid == (lo + hi) \div 2 IN Go(lo, mid) \o Go(mid + 1, hi)
    IN  Go(1, Len(s))

\* String.prototype.toLowerCase
ToLowerCase(s) == MapChars(s, ToLowerChar)

\* String.prototype.trim
Trim(s) ==
    LET solid == {i \in 1..Len(s) : ~IsWhite(Char(s, i))}
    IN  IF solid = {} THEN ""
        ELSE SubSeq(s, CHOOSE i \in solid : \A j \in solid : i <= j,
                       CHOOSE i \in solid : \A j \in solid : i >= j)

\* String.prototype.includes
Includes(s, part) ==
    \E i \in 0..(Len(s) - Len(part)) : SubSeq(s, i + 1, i + Len(part)) = part

\* the number of occurrences of character c in s
CountChar(s, c) == Cardinality({i \in 1..Len(s) : Char(s, i) = c})

(***************************************************************************)
(* parseCsvLine (detection.ts): one delimited line to its fields           *)
(***************************************************************************)
\* the last index of the run of characters from `index` that the loop appends
\* to the token one after the other: no quote, and no comma outside quotes
PlainRunEnd(line, index, inQuotes) ==
    LET stops == {j \in index..Len(line) :
                     Char(line, j) = "\"" \/ (Char(line, j) = "," /\ ~inQuotes)}
    IN  IF stops = {} THEN Len(line)
        ELSE (CHOOSE j \in stops : \A m \in stops : j <= m) - 1

\* the for loop: index is 1-based, `next` is line[index + 1]; the iterations
\* over a run of plain characters are taken as one step
RECURSIVE ParseCsvLoop(_, _, _, _, _)
ParseCsvLoop(line, index, token, inQuotes, result) ==
    IF index > Len(line) THEN Append(result, Trim(token))
    ELSE LET char == Char(line, index)
             next == IF index + 1 <= Len(line) THEN Char(line, index + 1) ELSE ""
         IN  IF char = "\""
             THEN IF inQuotes /\ next = "\""
                  THEN ParseCsvLoop(line, index + 2, token \o "\"", inQuotes, result)
                  ELSE ParseCsvLoop(line, index + 1, token, ~inQuotes, result)
             ELSE IF char = "," /\ ~inQuotes
                  THEN ParseCsvLoop(line, index + 1, "", inQuotes, Append(result, Trim(token)))
                  ELSE ParseCsvLoop(line, PlainRunEnd(line, index, inQuotes) + 1,
                                    token \o SubSeq(line, index,
                                                    PlainRunEnd(line, index, inQuotes)),
                                    inQuotes, result)

\* a plausible slip: the escaped-quote branch forgets that it is inside quotes
\* and every comma separates
RECURSIVE ParseCsvLoopNoQuoting(_, _, _, _, _)
ParseCsvLoopNoQuoting(line, index, token, inQuotes, result) ==
    IF index > Len(line) THEN Append(result, Trim(token))
    ELSE LET char == Char(line, index)
         IN  IF char = "\""
             THEN ParseCsvLoopNoQuoting(line, index + 1, token, ~inQuotes, result)
             ELSE IF char = ","
                  THEN ParseCsvLoopNoQuoting(line, index + 1, "", inQuotes,
                                             Append(result, Trim(token)))
                  ELSE ParseCsvLoopNoQuoting(line, index + 1, token \o char, inQuotes, result)

parseCsvLineNoQuoting(line) == ParseCsvLoopNoQuoting(line, 1, "", FALSE, <<>>)

parseCsvLine(line) == ParseCsvLoop(line, 1, "", FALSE, <<>>)

(***************************************************************************)
(* Generic helpers                                                         *)
(***************************************************************************)
Range(seq) == {seq[i] : i \in 1..Len(seq)}

Max(a, b) == IF a >= b THEN a ELSE b
Min(a, b) == IF a <= b THEN a ELSE b

\* Array.prototype.findIndex over positions 1..n; 0 stands for JavaScript's -1
FindIndex(n, P(_)) ==
    LET hits == {i \in 1..n : P(i)}
    IN  IF hits = {} THEN 0 ELSE CHOOSE i \in hits : \A j \in hits : i <= j

\* Array.prototype.join
RECURSIVE Join(_, _)
Join(seq, sep) ==
    IF seq = <<>> THEN ""
    ELSE IF Len(seq) = 1 THEN seq[1]
    ELSE seq[1] \o sep \o Join(Tail(seq), sep)

\* String.prototype.split on a one-character separator
\* the k-th smallest element of a set of integers
KthOf(S, k) == CHOOSE x \in S : Cardinality({y \in S : y < x}) = k - 1

\* String.prototype.split on a one-character separator: the pieces between
\* consecutive separator positions
Split(s, sep) ==
    LET cuts == {i \in 1..Len(s) : Char(s, i) = sep}
        n == Cardinality(cuts)
        CutAt(k) == IF k = 0 THEN 0 ELSE IF k = n + 1 THEN Len(s) + 1 ELSE KthOf(cuts, k)
    IN  [k \in 1..(n + 1) |-> SubSeq(s, CutAt(k - 1) + 1, CutAt(k) - 1)]

\* s.replace(/[^...]/g, by): every character not in `keep` becomes `by`
ReplaceNotIn(s, keep, by) == MapChars(s, LAMBDA c : IF IsCharOf(c, keep) THEN c ELSE by)

(***************************************************************************)
(* Alias dictionary (detection.ts)                                         *)
(***************************************************************************)
COLUMN_ALIASES == [
    user_id |-> <<
        "user_id", "userid", "user", "username", "user_name", "uid",
        "account_id", "accountid", "account", "email", "email_address",
        "login", "login_id", "loginid", "subject", "sub", "identity",
        "member_id", "memberid", "emp_id", "empid", "employee_id",
        "client_id", "clientid", "name", "id">>,
    timestamp |-> <<
        "timestamp", "time", "datetime", "date_time", "date", "login_time",
        "login_timestamp", "event_time", "event_timestamp", "created_at",
        "createdat", "logged_at", "loggedat", "ts", "event_date",
        "login_date", "access_time", "auth_time", "session_start",
        "start_time", "logon_time", "sign_in_time">>,
    lat |-> <<
        "lat", "latitude", "geo_lat", "geolat", "location_lat", "loc_lat",
        "y", "start_lat", "src_lat", "origin_lat", "gps_lat">>,
    long |-> <<
        "long", "longitude", "lng", "lon", "geo_long", "geolong",
        "location_long", "loc_long", "location_lng", "loc_lng", "x",
        "start_long", "src_long", "origin_long", "gps_long", "start_lng",
        "src_lng", "origin_lng", "gps_lng">>,
    device_id |-> <<
        "device_id", "deviceid", "device", "device_name", "devicename",
        "device_fingerprint", "fingerprint", "browser", "user_agent",
        "useragent", "ua", "client", "device_type", "devicetype", "machine",
        "machine_id", "machineid", "hardware_id", "hardwareid", "terminal",
        "terminal_id", "agent">>,
    ip_address |-> <<
        "ip_address", "ip", "ipaddress", "ip_addr", "ipaddr", "source_ip",
        "sourceip", "src_ip", "srcip", "client_ip", "clientip", "remote_ip",
        "remoteip", "origin_ip", "originip", "host", "address",
        "network_address">>,
    login_result |-> <<
        "login_result", "result", "status", "outcome", "success",
        "auth_result", "authresult", "login_status", "loginstatus",
        "authentication_result", "auth_status", "response", "action",
        "event_type", "eventtype", "login_outcome", "pass_fail">>]

\* Object.keys(COLUMN_ALIASES): the declaration order
allFields ==
    <<"user_id", "timestamp", "lat", "long", "device_id", "ip_address", "login_result">>

CRITICAL_FIELDS == <<"user_id", "timestamp">>

OPTIONAL_DEFAULTS == [
    lat |-> "0",
    long |-> "0",
    device_id |-> "unknown",
    ip_address |-> "",
    login_result |-> ""]

(***************************************************************************)
(* autoMapColumns (detection.ts)                                           *)
(***************************************************************************)
WordChars == LowerSet \cup DigitSet \cup {"_"}

\* h.trim().toLowerCase().replace(/[^a-z0-9_]/g, '_')
NormalizeHeader(h) == ReplaceNotIn(ToLowerCase(Trim(h)), WordChars, "_")

\* the first alias, in declared order, whose findIndex is not -1: that index
FirstAliasHit(aliases, Idx(_)) ==
    LET hit == FindIndex(Len(aliases), LAMBDA k : Idx(aliases[k]) # 0)
    IN  IF hit = 0 THEN 0 ELSE Idx(aliases[hit])

\* Pass 1: exact match against the alias list
Pass1(lowerHeaders, used, aliases) ==
    FirstAliasHit(aliases, LAMBDA alias :
        FindIndex(Len(lowerHeaders), LAMBDA i :
            i \notin used /\ lowerHeaders[i] = alias))

\* Pass 2: header contains alias or alias contains header
Pass2(lowerHeaders, used, aliases) ==
    FirstAliasHit(aliases, LAMBDA alias :
        FindIndex(Len(lowerHeaders), LAMBDA i :
            /\ i \notin used
            /\ (Includes(lowerHeaders[i], alias) \/ Includes(alias, lowerHeaders[i]))
            /\ Len(lowerHeaders[i]) > 1))

\* aliasTokens.filter((t) => headerTokens.includes(t)).length
OverlapCount(aliasTokens, headerTokens) ==
    Cardinality({k \in 1..Len(aliasTokens) : aliasTokens[k] \in Range(headerTokens)})

\* Pass 3: token overlap
\* overlap.length > 0 && overlap.length >= aliasTokens.length * 0.5
EnoughOverlap(overlap, aliasTokens) == overlap > 0 /\ 2 * overlap >= Len(aliasTokens)

TokensOverlap(aliasTokens, headerTokens) ==
    EnoughOverlap(OverlapCount(aliasTokens, headerTokens), aliasTokens)

Pass3(lowerHeaders, used, aliases) ==
    FirstAliasHit(aliases, LAMBDA alias :
        FindIndex(Len(lowerHeaders), LAMBDA i :
            /\ i \notin used
            /\ TokensOverlap(Split(alias, "_"), Split(lowerHeaders[i], "_"))))

\* the first pass that found an index
FirstFound(p1, p2, p3) == IF p1 # 0 THEN p1 ELSE IF p2 # 0 THEN p2 ELSE p3

ThreePasses(lowerHeaders, used, aliases) ==
    FirstFound(Pass1(lowerHeaders, used, aliases), Pass2(lowerHeaders, used, aliases),
               Pass3(lowerHeaders, used, aliases))

\* a plausible slip: the passes forget the `used` set
MatchIndexIgnoringUsed(lowerHeaders, used, field) ==
    ThreePasses(lowerHeaders, {}, COLUMN_ALIASES[field])

\* matchIdx of one field after the three passes (0 for -1)
MatchIndex(lowerHeaders, used, field) ==
    ThreePasses(lowerHeaders, used, COLUMN_ALIASES[field])

EmptyMapped == [f \in {} |-> ""]

\* the mapping before any call
NoMapping == [mapped |-> EmptyMapped, defaults |-> <<>>, ignored |-> <<>>, notes |-> <<>>]

\* the branch `matchIdx !== -1`
Matched(rawHeaders, lowerHeaders, st, field, matchIdx) ==
    [used |-> st.used \cup {matchIdx},
     mapped |-> (field :> rawHeaders[matchIdx]) @@ st.mapped,
     defaults |-> st.defaults,
     notes |-> IF lowerHeaders[matchIdx] # field
               THEN Append(st.notes, "\"" \o rawHeaders[matchIdx] \o "\" -> " \o field)
               ELSE st.notes]

\* the branches of a field without a match
Unmatched(st, field) ==
    IF field \in DOMAIN OPTIONAL_DEFAULTS
    THEN [st EXCEPT !.defaults = Append(@, field),
                    !.notes = Append(@, field \o ": not found - using default")]
    ELSE [st EXCEPT !.notes =
             Append(@, "! " \o field \o ": could not be identified in the dataset")]

AfterMatch(rawHeaders, lowerHeaders, st, field, matchIdx) ==
    IF matchIdx # 0 THEN Matched(rawHeaders, lowerHeaders, st, field, matchIdx)
    ELSE Unmatched(st, field)

\* a plausible slip: an optional field without a match is not recorded in defaults
AfterMatchNoDefaults(rawHeaders, lowerHeaders, st, field, matchIdx) ==
    IF matchIdx # 0 THEN Matched(rawHeaders, lowerHeaders, st, field, matchIdx)
    ELSE st

MapFieldNoDefaults(rawHeaders, lowerHeaders, st, field) ==
    AfterMatchNoDefaults(rawHeaders, lowerHeaders, st, field,
                         MatchIndex(lowerHeaders, st.used, field))

\* the body of `for (const field of allFields)`: the state after one field
MapField(rawHeaders, lowerHeaders, st, field) ==
    AfterMatch(rawHeaders, lowerHeaders, st, field, MatchIndex(lowerHeaders, st.used, field))

\* the loop over allFields[k..]; `used` holds positions of rawHeaders, and the
\* test of it makes each iteration finish before the next one starts
RECURSIVE MapFields(_, _, _, _)
MapFields(rawHeaders, lowerHeaders, k, st) ==
    IF k > Len(allFields) \/ st.used \notin SUBSET (1..Len(rawHeaders)) THEN st
    ELSE MapFields(rawHeaders, lowerHeaders, k + 1,
                   MapField(rawHeaders, lowerHeaders, st, allFields[k]))

SelectIndices(seq, keep) ==
    LET RECURSIVE Pick(_)
        Pick(i) == IF i > Len(seq) THEN <<>>
                   ELSE (IF i \in keep THEN <<seq[i]>> ELSE <<>>) \o Pick(i + 1)
    IN  Pick(1)

\* the returned ColumnMapping; ignored is rawHeaders.filter((_, i) => !used.has(i))
MappingOf(st, ignored) ==
    [mapped |-> st.mapped,
     defaults |-> st.defaults,
     ignored |-> ignored,
     notes |-> IF Len(ignored) > 0
               THEN Append(st.notes, "Extra columns ignored: " \o Join(ignored, ", "))
               ELSE st.notes]

\* a plausible slip: ignored filtered by header text, not by position
AfterFieldsByText(rawHeaders, st) ==
    MappingOf(st, SelectSeq(rawHeaders, LAMBDA h : \A f \in DOMAIN st.mapped : st.mapped[f] # h))

AfterFields(rawHeaders, st) ==
    MappingOf(st, SelectIndices(rawHeaders, (1..Len(rawHeaders)) \ st.used))

\* a plausible slip: defaults and notes declared at module level, so a call
\* appends to what the previous call left
EntryStateCarried(previous) ==
    [used |-> {}, mapped |-> EmptyMapped, defaults |-> previous.defaults,
     notes |-> previous.notes]

\* used, mapped, defaults and notes are created inside the function body: a
\* call starts from empty ones whatever the previous call returned
EntryState(previous) ==
    [used |-> {}, mapped |-> EmptyMapped, defaults |-> <<>>, notes |-> <<>>]

\* the call, made after a call that returned `previous`
AutoMapAfter(rawHeaders, previous) ==
    AfterFields(rawHeaders,
                MapFields(rawHeaders,
                          [i \in 1..Len(rawHeaders) |-> NormalizeHeader(rawHeaders[i])], 1,
                          EntryState(previous)))

autoMapColumns(rawHeaders) == AutoMapAfter(rawHeaders, NoMapping)

(***************************************************************************)
(* validateMapping (detection.ts): the thrown Error, or no error           *)
(***************************************************************************)
NoError == ""

SeqFilter(seq, P(_)) == SelectSeq(seq, P)

FirstN(seq, n) == SubSeq(seq, 1, IF Len(seq) < n THEN Len(seq) ELSE n)

SeqMap(seq, F(_)) == [i \in 1..Len(seq) |-> F(seq[i])]

\* a plausible slip: only the first critical field is looked at
validateMappingFirstOnly(mapping) ==
    IF CRITICAL_FIELDS[1] \in DOMAIN mapping.mapped THEN NoError
    ELSE "Could not identify critical columns: " \o CRITICAL_FIELDS[1]

\* the message of the thrown Error; NoError when nothing is thrown
validateMapping(mapping) ==
    LET missingCritical == SeqFilter(CRITICAL_FIELDS, LAMBDA f : f \notin DOMAIN mapping.mapped)
        hint == Join(SeqMap(missingCritical, LAMBDA f :
                    "\"" \o f \o "\" (looked for: "
                    \o Join(FirstN(COLUMN_ALIASES[f], 6), ", ") \o ", ...)"), "; ")
    IN  IF Len(missingCritical) > 0
        THEN "Could not identify critical columns: " \o Join(missingCritical, ", ") \o ". "
             \o "Please ensure your dataset contains columns like: " \o hint
        ELSE NoError

(***************************************************************************)
(* JavaScript numbers: fixed point, Scale units per 1; NaN is a reserved   *)
(* value that compares unequal to every number                             *)
(***************************************************************************)
Scale == 10000
NaN == -2147483647
isNaN(x) == x = NaN

DigitValueOf == [c \in DigitSet |-> (CHOOSE i \in 1..Len(DigitChars) : Char(DigitChars, i) = c) - 1]

DigitValue(c) == DigitValueOf[c]

IsDigits(s) == \A i \in 1..Len(s) : IsCharOf(Char(s, i), DigitSet)

\* the value of a digit string, saturating at MaxWhole
MaxWhole == 99999
RECURSIVE DigitsValue(_, _)
DigitsValue(s, acc) ==
    IF s = "" THEN acc
    ELSE DigitsValue(SubSeq(s, 2, Len(s)), Min(MaxWhole, acc * 10 + DigitValue(Char(s, 1))))

\* Number(s) for plain decimal literals ("", "12", "-74.006", ".5"); every
\* other text is NaN. The fraction is kept to four places.
NumberOfDigits(neg, whole, frac) ==
    IF ~IsDigits(whole) \/ ~IsDigits(frac) \/ (whole = "" /\ frac = "") THEN NaN
    ELSE (IF neg THEN -1 ELSE 1)
             * (DigitsValue(whole, 0) * Scale + DigitsValue(SubSeq(frac \o "0000", 1, 4), 0))

NumberOfParts(neg, parts) ==
    IF Len(parts) > 2 THEN NaN
    ELSE NumberOfDigits(neg, parts[1], IF Len(parts) = 2 THEN parts[2] ELSE "")

NumberOfTrimmed(s) ==
    IF s = "" THEN 0
    ELSE NumberOfParts(Char(s, 1) = "-",
                       Split(IF Char(s, 1) \in {"-", "+"} THEN SubSeq(s, 2, Len(s)) ELSE s, "."))

Number(str) == NumberOfTrimmed(Trim(str))

(***************************************************************************)
(* applyMapping (detection.ts): one raw row to a LoginEvent                *)
(***************************************************************************)
\* `undefined` of an optional string field
Undefined == "<undefined>"

\* a raw row is a function from column name to value; a missing key reads undefined
RowGet(row, key) == IF key \in DOMAIN row THEN row[key] ELSE Undefined

\* a ?? b
Coalesce(a, b) == IF a = Undefined THEN b ELSE a

\* a || b on strings
OrElse(a, b) == IF a = Undefined \/ a = "" THEN b ELSE a

\* k.toLowerCase().replace(/[^a-z0-9]/g, ''): characters outside a-z0-9 are dropped
KeepOnly(s, keep) == MapChars(s, LAMBDA c : IF IsCharOf(c, keep) THEN c ELSE "")

AlnumChars == LowerSet \cup DigitSet

ExtraKey(k) == KeepOnly(ToLowerCase(k), AlnumChars)

\* Object.entries(row) in insertion order is `keys`; a later column with the
\* same normalised name overwrites an earlier one
ExtraOf(row, keys) ==
    LET names == {ExtraKey(keys[i]) : i \in 1..Len(keys)}
        LastIdx(n) == CHOOSE i \in 1..Len(keys) :
                          /\ ExtraKey(keys[i]) = n
                          /\ \A j \in (i + 1)..Len(keys) : ExtraKey(keys[j]) # n
    IN  [n \in names |-> row[keys[LastIdx(n)]]]

MappingGet(row, mapping, field) ==
    LET default == IF field \in DOMAIN OPTIONAL_DEFAULTS THEN OPTIONAL_DEFAULTS[field] ELSE ""
    IN  IF field \in DOMAIN mapping.mapped
        THEN LET originalCol == mapping.mapped[field]
             IN  Coalesce(Coalesce(RowGet(row, originalCol),
                                   RowGet(row, ToLowerCase(originalCol))), default)
        ELSE default

\* n || 0
OrZero(n) == IF isNaN(n) THEN 0 ELSE n

\* Number(x) || 0
NumberOrZero(str) == OrZero(Number(str))

\* a || undefined
OrUndefined(a) == IF a = "" THEN Undefined ELSE a

applyMapping(row, keys, mapping, rowId) ==
    [rowId |-> rowId,
     user_id |-> MappingGet(row, mapping, "user_id"),
     timestamp |-> MappingGet(row, mapping, "timestamp"),
     lat |-> NumberOrZero(MappingGet(row, mapping, "lat")),
     long |-> NumberOrZero(MappingGet(row, mapping, "long")),
     device_id |-> OrElse(MappingGet(row, mapping, "device_id"), "unknown"),
     ip_address |-> OrUndefined(MappingGet(row, mapping, "ip_address")),
     login_result |-> OrUndefined(MappingGet(row, mapping, "login_result")),
     extra |-> ExtraOf(row, keys)]

(***************************************************************************)
(* Results of the parsers: a thrown Error is a result whose error is set   *)
(***************************************************************************)
Parsed(evts, headers, mapping) ==
    [error |-> NoError, events |-> evts, headers |-> headers, mapping |-> mapping]

Thrown(message) ==
    [error |-> message, events |-> <<>>, headers |-> <<>>, mapping |-> NoMapping]

\* text.split(/\r?\n/): the pieces between line feeds, without the carriage
\* return that precedes a line feed
SplitLines(text) ==
    LET pieces == Split(text, "\n")
        n == Len(pieces)
    IN  [k \in 1..n |->
            IF k < n /\ Len(pieces[k]) > 0 /\ Char(pieces[k], Len(pieces[k])) = "\r"
            THEN SubSeq(pieces[k], 1, Len(pieces[k]) - 1)
            ELSE pieces[k]]

NonBlankLines(text) ==
    SelectSeq(SeqMap(SplitLines(text), LAMBDA l : Trim(l)), LAMBDA l : Len(l) > 0)

\* rawHeaders.forEach((header, i) => row[header] = values[i] ?? '')
RowOfCells(rawHeaders, values) ==
    LET LastIdx(h) == CHOOSE i \in 1..Len(rawHeaders) :
                          /\ rawHeaders[i] = h
                          /\ \A j \in (i + 1)..Len(rawHeaders) : rawHeaders[j] # h
    IN  [h \in Range(rawHeaders) |->
            IF LastIdx(h) <= Len(values) THEN values[LastIdx(h)] ELSE ""]

\* Object.keys(row) of a row built by RowOfCells: first occurrences, in order
DistinctKeys(rawHeaders) ==
    SelectIndices(rawHeaders,
        {i \in 1..Len(rawHeaders) : \A j \in 1..(i - 1) : rawHeaders[j] # rawHeaders[i]})

(***************************************************************************)
(* parseLoginCsv (detection.ts)                                            *)
(***************************************************************************)
\* the part after the mapping is known: validateMapping, then the data rows
CsvRows(lines, rawHeaders, mapping) ==
    IF validateMapping(mapping) # NoError THEN Thrown(validateMapping(mapping))
    ELSE Parsed([idx \in 1..(Len(lines) - 1) |->
                    applyMapping(RowOfCells(rawHeaders, parseCsvLine(lines[idx + 1])),
                                 DistinctKeys(rawHeaders), mapping, idx)],
                rawHeaders, mapping)

\* the part after the header line is split
CsvTable(lines, rawHeaders) == CsvRows(lines, rawHeaders, autoMapColumns(rawHeaders))

\* the part after the text is split in lines
CsvOfLines(lines) ==
    IF Len(lines) < 2
    THEN Thrown("CSV must contain header and at least one data row.")
    ELSE CsvTable(lines, parseCsvLine(lines[1]))

parseLoginCsv(csvText) == CsvOfLines(NonBlankLines(csvText))

(***************************************************************************)
(* JSON.parse of the runtime, for JSON texts without string escapes and    *)
(* without exponents: the decoded value, or invalid                        *)
(***************************************************************************)
JVal(type, text, keys, items) == [type |-> type, text |-> text, keys |-> keys, items |-> items]
JNull == JVal("null", "", <<>>, <<>>)
JString(t) == JVal("string", t, <<>>, <<>>)
JNumber(t) == JVal("number", t, <<>>, <<>>)
JBool(t) == JVal("boolean", t, <<>>, <<>>)
JArray(items) == JVal("array", "", <<>>, items)

\* an object keeps the first position and the last value of a repeated key
JObject(keys, items) ==
    LET firsts == {i \in 1..Len(keys) : \A j \in 1..(i - 1) : keys[j] # keys[i]}
        LastIdx(k) == CHOOSE i \in 1..Len(keys) :
                          keys[i] = k /\ \A j \in (i + 1)..Len(keys) : keys[j] # k
        ks == SelectIndices(keys, firsts)
    IN  JVal("object", "", ks, [i \in 1..Len(ks) |-> items[LastIdx(ks[i])]])

JFail == [ok |-> FALSE, val |-> JNull, next |-> 0]
JOk(val, next) == [ok |-> TRUE, val |-> val, next |-> next]

NumberChars == DigitSet \cup {"-", "+", ".", "e", "E"}

IsJsonNumber(tok) ==
    LET body == IF tok # "" /\ Char(tok, 1) = "-" THEN SubSeq(tok, 2, Len(tok)) ELSE tok
        parts == Split(body, ".")
    IN  /\ Len(parts) <= 2
        /\ \A k \in 1..Len(parts) : parts[k] # "" /\ IsDigits(parts[k])

JsonDecode(s) ==
    LET n == Len(s)
        At(i) == IF i >= 1 /\ i <= n THEN Char(s, i) ELSE ""
        \* the first position >= i that holds no white space (n + 1 at the end)
        SkipWs(i) == CHOOSE j \in i..(n + 1) :
                        /\ ~IsWhite(At(j)) \/ j = n + 1
                        /\ \A m \in i..(j - 1) : IsWhite(At(m))
        \* a string literal whose opening quote is at i
        StringAt(i) ==
            LET closes == {j \in (i + 1)..n : At(j) = "\""}
                q == CHOOSE j \in closes : \A m \in closes : j <= m
            IN  IF closes = {} \/ Includes(SubSeq(s, i + 1, q - 1), "\\")
                THEN JFail
                ELSE JOk(JString(SubSeq(s, i + 1, q - 1)), q + 1)
        NumberAt(i) ==
            LET stop == CHOOSE j \in i..(n + 1) :
                            /\ ~IsCharOf(At(j), NumberChars) \/ j = n + 1
                            /\ \A m \in i..(j - 1) : IsCharOf(At(m), NumberChars)
                tok == SubSeq(s, i, stop - 1)
            IN  IF IsJsonNumber(tok) THEN JOk(JNumber(tok), stop) ELSE JFail
        Literal(i, word, val) ==
            IF SubSeq(s, i, i + Len(word) - 1) = word THEN JOk(val, i + Len(word)) ELSE JFail
        RECURSIVE Value(_), Elements(_, _), Members(_, _, _)
        Value(i0) ==
            LET i == SkipWs(i0)
                c == At(i)
            IN  IF c = "\"" THEN StringAt(i)
                ELSE IF c = "[" THEN
                    (IF At(SkipWs(i + 1)) = "]"
                     THEN JOk(JArray(<<>>), SkipWs(i + 1) + 1)
                     ELSE Elements(i + 1, <<>>))
                ELSE IF c = "{" THEN
                    (IF At(SkipWs(i + 1)) = "}"
                     THEN JOk(JObject(<<>>, <<>>), SkipWs(i + 1) + 1)
                     ELSE Members(i + 1, <<>>, <<>>))
                ELSE IF c = "t" THEN Literal(i, "true", JBool("true"))
                ELSE IF c = "f" THEN Literal(i, "false", JBool("false"))
                ELSE IF c = "n" THEN Literal(i, "null", JNull)
                ELSE IF IsCharOf(c, NumberChars) /\ c # "" THEN NumberAt(i)
                ELSE JFail
        Elements(i, acc) ==
            LET v == Value(i)
                j == SkipWs(v.next)
            IN  IF ~v.ok THEN JFail
                ELSE IF At(j) = "," THEN Elements(j + 1, Append(acc, v.val))
                ELSE IF At(j) = "]" THEN JOk(JArray(Append(acc, v.val)), j + 1)
                ELSE JFail
        Members(i, keys, vals) ==
            LET k == SkipWs(i)
                key == StringAt(k)
                colon == SkipWs(key.next)
                v == Value(colon + 1)
                j == SkipWs(v.next)
            IN  IF At(k) # "\"" \/ ~key.ok \/ At(colon) # ":" \/ ~v.ok THEN JFail
                ELSE IF At(j) = ","
                     THEN Members(j + 1, Append(keys, key.val.text), Append(vals, v.val))
                ELSE IF At(j) = "}"
                     THEN JOk(JObject(Append(keys, key.val.text), Append(vals, v.val)), j + 1)
                ELSE JFail
        top == Value(1)
    IN  IF top.ok /\ SkipWs(top.next) = n + 1 THEN top ELSE JFail

\* String(v ?? '')
RECURSIVE JsString(_)
JsString(v) ==
    IF v.type = "null" THEN ""
    ELSE IF v.type = "array"
         THEN Join([i \in 1..Len(v.items) |-> JsString(v.items[i])], ",")
    ELSE IF v.type = "object" THEN "[object Object]"
    ELSE v.text

\* the decimal text of a small natural number
RECURSIVE NatString(_)
NatString(k) ==
    IF k < 10 THEN Char(DigitChars, k + 1)
    ELSE NatString(k \div 10) \o Char(DigitChars, (k % 10) + 1)

\* Object.keys(v) and the values in the same order, for a non-null value
JsKeys(v) ==
    IF v.type = "object" THEN v.keys
    ELSE IF v.type = "array" THEN [i \in 1..Len(v.items) |-> NatString(i - 1)]
    ELSE IF v.type = "string" THEN [i \in 1..Len(v.text) |-> NatString(i - 1)]
    ELSE <<>>

JsValues(v) ==
    IF v.type \in {"object", "array"} THEN v.items
    ELSE IF v.type = "string" THEN [i \in 1..Len(v.text) |-> JString(Char(v.text, i))]
    ELSE <<>>

\* obj.name: the property's value, or undefined (here: null, which ?? treats alike)
JsProp(obj, name) ==
    IF \E i \in 1..Len(obj.keys) : obj.keys[i] = name
    THEN obj.items[CHOOSE i \in 1..Len(obj.keys) : obj.keys[i] = name]
    ELSE JNull

\* a ?? b on decoded values
JsCoalesce(a, b) == IF a.type = "null" THEN b ELSE a

(***************************************************************************)
(* parseLoginJson (detection.ts)                                           *)
(***************************************************************************)
NullRowError == "Cannot convert undefined or null to object"

\* String(v ?? '') of every property of one element
StringRow(raw) ==
    [k \in Range(JsKeys(raw)) |->
        JsString(JsValues(raw)[CHOOSE i \in 1..Len(JsKeys(raw)) : JsKeys(raw)[i] = k])]

\* the part after the mapping is known
JsonRows(rows, rawHeaders, mapping) ==
    IF validateMapping(mapping) # NoError THEN Thrown(validateMapping(mapping))
    ELSE IF \E idx \in 1..Len(rows) : rows[idx].type = "null"
    THEN Thrown(NullRowError)
    ELSE Parsed([idx \in 1..Len(rows) |->
                    applyMapping(StringRow(rows[idx]), JsKeys(rows[idx]), mapping, idx)],
                rawHeaders, mapping)

JsonTable(rows, rawHeaders) == JsonRows(rows, rawHeaders, autoMapColumns(rawHeaders))

\* the part after `rows` is known
ParseJsonRows(rows) ==
    IF Len(rows) = 0
    THEN Thrown("JSON array is empty - at least one event is required.")
    ELSE IF rows[1].type = "null" THEN Thrown(NullRowError)
    ELSE JsonTable(rows, JsKeys(rows[1]))

\* data.events ?? data.data ?? data.records ?? data.rows
Candidate(data) ==
    JsCoalesce(JsProp(data, "events"),
       JsCoalesce(JsProp(data, "data"),
          JsCoalesce(JsProp(data, "records"), JsProp(data, "rows"))))

WrappedRows(candidate) ==
    IF candidate.type = "array" THEN ParseJsonRows(candidate.items)
    ELSE Thrown("JSON must be an array or contain an \"events\", \"data\", "
                \o "\"records\", or \"rows\" array.")

\* the part after JSON.parse
ParseDecoded(decoded) ==
    IF ~decoded.ok THEN Thrown("Invalid JSON - file could not be parsed.")
    ELSE IF decoded.val.type = "array" THEN ParseJsonRows(decoded.val.items)
    ELSE IF decoded.val.type = "object" THEN WrappedRows(Candidate(decoded.val))
    ELSE Thrown("JSON must be an array of login event objects.")

parseLoginJson(jsonText) == ParseDecoded(JsonDecode(jsonText))

(***************************************************************************)
(* parseLoginFromText (detection.ts)                                       *)
(***************************************************************************)
\* line.split(/[\t|]+|\s{2,}/): a run of tabs and bars separates, and so does
\* a run of two or more white-space characters
RECURSIVE SplitTableLoop(_, _, _, _)
SplitTableLoop(line, index, token, result) ==
    IF index > Len(line) THEN Append(result, token)
    ELSE LET char == Char(line, index)
             Separates(j) ==
                 \/ Char(line, j) \in {"\t", "|"}
                 \/ IsWhite(Char(line, j)) /\ j < Len(line) /\ IsWhite(Char(line, j + 1))
             RunEnd(P(_)) == CHOOSE j \in index..Len(line) :
                                /\ \A m \in index..j : P(Char(line, m))
                                /\ (j = Len(line) \/ ~P(Char(line, j + 1)))
             \* the run of characters that join the token one after the other
             plainEnd == CHOOSE j \in index..Len(line) :
                            /\ \A m \in index..j : ~Separates(m)
                            /\ (j = Len(line) \/ Separates(j + 1))
         IN  IF char \in {"\t", "|"}
             THEN SplitTableLoop(line, RunEnd(LAMBDA c : c \in {"\t", "|"}) + 1, "",
                                 Append(result, token))
             ELSE IF IsWhite(char) /\ index < Len(line) /\ IsWhite(Char(line, index + 1))
             THEN SplitTableLoop(line, RunEnd(IsWhite) + 1, "", Append(result, token))
             ELSE SplitTableLoop(line, plainEnd + 1, token \o SubSeq(line, index, plainEnd),
                                 result)

SplitTable(line) == SplitTableLoop(line, 1, "", <<>>)

\* .map((t) => t.trim()).filter(Boolean)
TableCells(line) ==
    SelectSeq(SeqMap(SplitTable(line), LAMBDA t : Trim(t)), LAMBDA t : t # "")

\* Object.values(COLUMN_ALIASES).flat()
allAliasValues == UNION {Range(COLUMN_ALIASES[f]) : f \in DOMAIN COLUMN_ALIASES}

\* the header score of one line: its cells that are known aliases
HeaderScore(line) ==
    LET tokens == SelectSeq(SeqMap(SplitTable(ToLowerCase(line)),
                        LAMBDA t : ReplaceNotIn(Trim(t), WordChars, "_")), LAMBDA t : t # "")
    IN  Len(SelectSeq(tokens, LAMBDA t : t \in allAliasValues))

MaxHeaderScan == 20

\* the loop that finds bestHeaderIdx (0 for -1) and bestScore
RECURSIVE BestHeader(_, _, _, _)
BestHeader(lines, i, bestHeaderIdx, bestScore) ==
    IF i > Len(lines) \/ i > MaxHeaderScan THEN [idx |-> bestHeaderIdx, score |-> bestScore]
    ELSE LET score == HeaderScore(lines[i])
         IN  IF score > bestScore THEN BestHeader(lines, i + 1, i, score)
             ELSE BestHeader(lines, i + 1, bestHeaderIdx, bestScore)

\* a data line that repeats the header line
HeaderRepeat(row, mapping) ==
    /\ "user_id" \in DOMAIN mapping.mapped
    /\ mapping.mapped["user_id"] # ""
    /\ ToLowerCase(row[mapping.mapped["user_id"]]) = ToLowerCase(mapping.mapped["user_id"])

\* the loop over the lines after the header line
RECURSIVE TableRows(_, _, _, _, _)
\* a plausible slip: the row id is the position of the line after the header
TableRowByLine(lines, i, rawHeaders, mapping, parsedEvents, tokens) ==
    IF 2 * Len(tokens) < Len(rawHeaders) THEN
        TableRows(lines, i + 1, rawHeaders, mapping, parsedEvents)
    ELSE IF HeaderRepeat(RowOfCells(rawHeaders, tokens), mapping) THEN
        TableRows(lines, i + 1, rawHeaders, mapping, parsedEvents)
    ELSE TableRows(lines, i + 1, rawHeaders, mapping,
            Append(parsedEvents, applyMapping(RowOfCells(rawHeaders, tokens),
                                              DistinctKeys(rawHeaders), mapping,
                                              i - 1)))

TableRow(lines, i, rawHeaders, mapping, parsedEvents, tokens) ==
    IF 2 * Len(tokens) < Len(rawHeaders) THEN
        TableRows(lines, i + 1, rawHeaders, mapping, parsedEvents)
    ELSE IF HeaderRepeat(RowOfCells(rawHeaders, tokens), mapping) THEN
        TableRows(lines, i + 1, rawHeaders, mapping, parsedEvents)
    ELSE TableRows(lines, i + 1, rawHeaders, mapping,
            Append(parsedEvents, applyMapping(RowOfCells(rawHeaders, tokens),
                                              DistinctKeys(rawHeaders), mapping,
                                              Len(parsedEvents) + 1)))

TableRows(lines, i, rawHeaders, mapping, parsedEvents) ==
    IF i > Len(lines) THEN parsedEvents
    ELSE TableRow(lines, i, rawHeaders, mapping, parsedEvents, TableCells(lines[i]))

\* the part after the data rows are read
TableResult(rawHeaders, mapping, parsedEvents) ==
    IF validateMapping(mapping) # NoError THEN Thrown(validateMapping(mapping))
    ELSE IF Len(parsedEvents) = 0
    THEN Thrown("PDF contained a header row but no parseable data rows.")
    ELSE Parsed(parsedEvents, rawHeaders, mapping)

TableMapped(lines, first, rawHeaders, mapping) ==
    TableResult(rawHeaders, mapping, TableRows(lines, first, rawHeaders, mapping, <<>>))

\* the part after the header line is found
TableAfter(lines, best) ==
    IF best.idx = 0 \/ best.score < 2
    THEN Thrown("Could not detect login event data in PDF. The file must contain a "
                \o "table or structured data with recognisable column headers "
                \o "(e.g. user, timestamp, latitude, longitude, device, ip, etc.).")
    ELSE TableMapped(lines, best.idx + 1, TableCells(lines[best.idx]),
                     autoMapColumns(TableCells(lines[best.idx])))

\* the third strategy: white-space, tab or bar separated table
parseTextTable(lines) == TableAfter(lines, BestHeader(lines, 1, 0, 0))

\* rawText.match(/\[[\s\S]*\]/): from the first "[" to the last "]" after it
JsonSpan(rawText) ==
    LET opens == {i \in 1..Len(rawText) : Char(rawText, i) = "["}
        first == CHOOSE i \in opens : \A j \in opens : i <= j
        closes == {i \in 1..Len(rawText) : Char(rawText, i) = "]" /\ i > first}
        last == CHOOSE i \in closes : \A j \in closes : i >= j
    IN  IF opens = {} \/ closes = {} THEN Undefined ELSE SubSeq(rawText, first, last)

\* the second and third strategies
JsonOrTable(lines, jsonMatch, json) ==
    IF jsonMatch # Undefined /\ json.error = NoError THEN json
    ELSE parseTextTable(lines)

\* a plausible slip: no try around the CSV strategy, its exception reaches the
\* caller
CsvOrThrow(rawText, lines, csv) ==
    IF Len(lines) > 0 /\ Includes(lines[1], ",") THEN csv
    ELSE JsonOrTable(lines, JsonSpan(rawText), parseLoginJson(JsonSpan(rawText)))

\* the first strategy, then the others
CsvOrOther(rawText, lines, csv) ==
    IF Len(lines) > 0 /\ Includes(lines[1], ",") /\ csv.error = NoError THEN csv
    ELSE JsonOrTable(lines, JsonSpan(rawText), parseLoginJson(JsonSpan(rawText)))

TextOfLines(rawText, lines) == CsvOrOther(rawText, lines, parseLoginCsv(Join(lines, "\n")))

parseLoginFromText(rawText) == TextOfLines(rawText, NonBlankLines(rawText))

(***************************************************************************)
(* Dates (the runtime's Date): timestamps are read as local time; the unit *)
(* of getTime() is the minute, every timestamp of the model being a whole  *)
(* minute (the runtime's milliseconds are 60000 times these values)        *)
(***************************************************************************)
\* days from 1970-01-01 to the civil date y-m-d
DaysFromCivil(y, m, d) ==
    LET yy == IF m <= 2 THEN y - 1 ELSE y
        era == yy \div 400
        yoe == yy - era * 400
        mp == IF m > 2 THEN m - 3 ELSE m + 9
        doy == (153 * mp + 2) \div 5 + d - 1
        doe == yoe * 365 + yoe \div 4 - yoe \div 100 + doy
    IN  era * 146097 + doe - 719468

\* new Date(timestamp).getTime() for "YYYY-MM-DDTHH:MM"; NaN for any other text
TimeOfFields(y, m, d, hours, minutes) ==
    IF m \notin 1..12 \/ d \notin 1..31 \/ hours > 23 \/ minutes > 59 THEN NaN
    ELSE (DaysFromCivil(y, m, d) * 24 + hours) * 60 + minutes

GetTime(timestamp) ==
    IF \/ Len(timestamp) # 16
       \/ <<Char(timestamp, 5), Char(timestamp, 8), Char(timestamp, 11), Char(timestamp, 14)>>
              # <<"-", "-", "T", ":">>
       \/ ~IsDigits(SubSeq(timestamp, 1, 4) \o SubSeq(timestamp, 6, 7)
                    \o SubSeq(timestamp, 9, 10) \o SubSeq(timestamp, 12, 13)
                    \o SubSeq(timestamp, 15, 16))
    THEN NaN
    ELSE TimeOfFields(DigitsValue(SubSeq(timestamp, 1, 4), 0),
                      DigitsValue(SubSeq(timestamp, 6, 7), 0),
                      DigitsValue(SubSeq(timestamp, 9, 10), 0),
                      DigitsValue(SubSeq(timestamp, 12, 13), 0),
                      DigitsValue(SubSeq(timestamp, 15, 16), 0))

\* new Date(ts).getHours() of a valid time value
GetHours(ts) == (ts % 1440) \div 60

\* the number Infinity
Infinity == 2147483647

(***************************************************************************)
(* Math of the runtime in fixed point: sines, cosines and square roots in  *)
(* units of 1/Scale, angles in units of 1/Scale radian                     *)
(***************************************************************************)
HalfPi == 15708

\* sin on [0, pi/2] by its Taylor polynomial of degree 7
SinQ(x) ==
    LET x2 == (x * x) \div Scale
        x3 == (x2 * x) \div Scale
        x5 == (x3 * x2) \div Scale
        x7 == ((x5 \div 4) * x2) \div (Scale \div 4)
    IN  x - x3 \div 6 + x5 \div 120 - x7 \div 5040

SinOfTurn(y) ==
    IF y <= HalfPi THEN SinQ(y)
    ELSE IF y <= 2 * HalfPi THEN SinQ(2 * HalfPi - y)
    ELSE IF y <= 3 * HalfPi THEN 0 - SinQ(y - 2 * HalfPi)
    ELSE 0 - SinQ(4 * HalfPi - y)

Sin(x) == SinOfTurn(x % (4 * HalfPi))

Cos(x) == Sin(x + HalfPi)

\* the integer square root, by bisection of lo..hi
RECURSIVE SqrtBetween(_, _, _)
SqrtBetween(n, lo, hi) ==
    IF lo >= hi THEN lo
    ELSE LET mid == (lo + hi + 1) \div 2
         IN  IF mid * mid <= n THEN SqrtBetween(n, mid, hi)
             ELSE SqrtBetween(n, lo, mid - 1)

ISqrt(n) == SqrtBetween(n, 0, 20000)

\* atan on [0, 0.42] by its Taylor polynomial of degree 7
AtanSmall(t) ==
    LET t2 == (t * t) \div Scale
        t3 == (t2 * t) \div Scale
        t5 == (t3 * t2) \div Scale
        t7 == (t5 * t2) \div Scale
    IN  t - t3 \div 3 + t5 \div 5 - t7 \div 7

\* atan on [0, 1]: atan t = 2 atan(t / (1 + sqrt(1 + t^2)))
AtanUnit(t) ==
    LET root == ISqrt((Scale + (t * t) \div Scale) * Scale)
    IN  2 * AtanSmall((t * Scale) \div (Scale + root))

\* Math.atan2(y, x) for y >= 0 and x >= 0, not both 0
Atan2(y, x) ==
    IF y <= x THEN AtanUnit((y * Scale) \div x)
    ELSE HalfPi - AtanUnit((x * Scale) \div y)

(***************************************************************************)
(* haversineKm (detection.ts): coordinates in 1/Scale degree, the result   *)
(* in whole kilometres; NaN when the square root of a negative is taken    *)
(***************************************************************************)
toRad(v) ==
    IF v >= 0 THEN (v * 349) \div 20000 ELSE 0 - ((0 - v) * 349) \div 20000

Half(v) == IF v >= 0 THEN v \div 2 ELSE 0 - ((0 - v) \div 2)

\* 2 * R * atan2(sqrt(a), sqrt(1 - a)), a in units of 1/Scale^2
CentralAngleKm(a) ==
    IF a < 0 \/ a > Scale * Scale THEN NaN
    ELSE (2 * 6371 * Atan2(ISqrt(a), ISqrt(Scale * Scale - a))) \div Scale

\* a of the haversine formula from sin(dLat/2), sin(dLon/2) squared and the
\* product of the cosines
HaversineOf(sLat, sLon2, cc) ==
    CentralAngleKm(sLat * sLat + cc * (sLon2 \div Scale) + (cc * (sLon2 % Scale)) \div Scale)

Square(x) == x * x

\* the same with latitudes and longitudes swapped in the cosine factor
haversineKmSwapped(lat1, lon1, lat2, lon2) ==
    HaversineOf(Sin(Half(toRad(lat2 - lat1))), Square(Sin(Half(toRad(lon2 - lon1)))),
                (Cos(toRad(lon1)) * Cos(toRad(lon2))) \div Scale)

haversineKm(lat1, lon1, lat2, lon2) ==
    HaversineOf(Sin(Half(toRad(lat2 - lat1))), Square(Sin(Half(toRad(lon2 - lon1)))),
                (Cos(toRad(lat1)) * Cos(toRad(lat2))) \div Scale)

(***************************************************************************)
(* Detection settings and behavioural aliases (detection.ts)               *)
(***************************************************************************)
DEFAULT_SETTINGS ==
    [warningThreshold |-> 55,
     criticalThreshold |-> 80,
     impossibleTravelSpeedKmh |-> 850,
     rapidDeviceSwitchMinutes |-> 20,
     burstWindowMinutes |-> 30,
     burstEventCount |-> 4]

BEHAVIORAL_ALIASES ==
    [
     failed_logins |->
        <<"failedloginattempts", "failed_login_attempts", "failedlogins",
          "failed_logins", "login_failures", "loginfailures", "num_failed_logins">>,
     anomalous_activity |->
        <<"anomalousactivity", "anomalous_activity", "is_anomalous", "isanomalous",
          "anomaly", "anomaly_flag", "anomalyflag">>,
     incident_reports |->
        <<"incidentreports", "incident_reports", "incidents", "num_incidents",
          "security_incidents", "securityincidents">>,
     password_resets |->
        <<"passwordresets", "password_resets", "pwd_resets", "pwdresets",
          "num_password_resets", "reset_count">>,
     access_sensitive |->
        <<"accesstosensitivedata", "access_to_sensitive_data", "sensitive_data",
          "sensitivedata", "sensitive_access", "sensitiveaccess">>,
     login_consistency |->
        <<"loginconsistency", "login_consistency", "login_regularity",
          "loginregularity">>,
     device_consistency |->
        <<"deviceconsistency", "device_consistency", "device_regularity",
          "deviceregularity">>,
     location_consistency |->
        <<"accesslocationconsistency", "access_location_consistency",
          "locationconsistency", "location_consistency", "geo_consistency",
          "geoconsistency">>,
     failed_transactions |->
        <<"failedtransactions", "failed_transactions", "transaction_failures",
          "transactionfailures", "num_failed_transactions">>,
     session_duration |->
        <<"sessionduration", "session_duration", "duration", "session_length",
          "sessionlength", "time_spent", "timespent">>,
     mfa_enabled |->
        <<"mfaenabled", "mfa_enabled", "mfa", "two_factor", "twofactor", "2fa",
          "multi_factor", "multifactor">>,
     access_frequency |->
        <<"accessfrequency", "access_frequency", "login_frequency", "loginfrequency",
          "frequency", "num_accesses">>
    ]

\* `alias.replace(/[^a-z0-9]/g, '')` of every alias, once per field
NormalizedAliases ==
    [field \in DOMAIN BEHAVIORAL_ALIASES |->
        SeqMap(BEHAVIORAL_ALIASES[field], LAMBDA alias : KeepOnly(alias, AlnumChars))]

\* BEHAVIORAL_ALIASES[field].some((a) => normalized(a) in event.extra)
HasBehavioral(event, field) ==
    \E k \in 1..Len(NormalizedAliases[field]) :
        NormalizedAliases[field][k] \in DOMAIN event.extra

\* getBehavioral: the number under the first alias present in event.extra
ValueAtAlias(event, aliases, hit) ==
    IF hit = 0 THEN 0 ELSE NumberOrZero(event.extra[aliases[hit]])

FirstAliasIn(event, aliases) ==
    ValueAtAlias(event, aliases,
                 FindIndex(Len(aliases), LAMBDA k : aliases[k] \in DOMAIN event.extra))

getBehavioral(event, field) ==
    IF field \notin DOMAIN BEHAVIORAL_ALIASES THEN 0
    ELSE FirstAliasIn(event, NormalizedAliases[field])

\* `${n}` of a number
NumString(v) ==
    LET m == IF v < 0 THEN 0 - v ELSE v
        frac == m % Scale
        digits == SubSeq(NatString(Scale + frac), 2, 5)
        kept == IF frac % 1000 = 0 THEN 1 ELSE IF frac % 100 = 0 THEN 2
                ELSE IF frac % 10 = 0 THEN 3 ELSE 4
    IN  (IF v < 0 THEN "-" ELSE "") \o NatString(m \div Scale)
        \o (IF frac = 0 THEN "" ELSE "." \o SubSeq(digits, 1, kept))

\* the unit of the population statistics: hundredths
StatUnit == 100

Sum(seq) ==
    LET RECURSIVE Go(_)
        Go(k) == IF k = 0 THEN 0 ELSE seq[k] + Go(k - 1)
    IN  Go(Len(seq))

\* values.filter((v) => v !== 0 || events.some(...)): the zeros stay when some
\* value is not zero
Population(all) ==
    SelectSeq(all, LAMBDA v : v # 0 \/ \E k \in 1..Len(all) : all[k] # 0)

\* computeStats: the population of a behavioural field as its count, sum and
\* sum of squares, so that mean = sum / count and
\* std^2 = sumSq / count - mean^2 are exact
StatsOf(values) ==
    [count |-> Len(values),
     sum |-> Sum(values),
     sumSq |-> Sum([k \in 1..Len(values) |-> values[k] * values[k]])]

computeStats(evs, field) ==
    StatsOf(Population([k \in 1..Len(evs) |->
                           getBehavioral(evs[k], field) \div (Scale \div StatUnit)]))

\* stats.std > 0
StdPositive(stats) ==
    stats.count > 0 /\ stats.count * stats.sumSq - stats.sum * stats.sum > 0

\* (value - stats.mean) / stats.std > 1.5, for stats.std > 0
ZScoreHigh(value, stats) ==
    /\ stats.count * (value \div (Scale \div StatUnit)) - stats.sum > 0
    /\ 4 * Square(stats.count * (value \div (Scale \div StatUnit)) - stats.sum)
           > 9 * (stats.count * stats.sumSq - stats.sum * stats.sum)

(***************************************************************************)
(* The scoring rules of detectIdentityTheft (detection.ts), one operator   *)
(* per rule: the signals (score delta and reason) it adds for one event    *)
(***************************************************************************)
NoSignal == <<>>
Signal(delta, reason) == <<[delta |-> delta, reason |-> reason]>>

Truthy(str) == str # Undefined /\ str # ""

OffHoursRule(hasRealTimestamps, ts) ==
    LET hour == IF isNaN(ts) THEN 12 ELSE GetHours(ts)
    IN  IF hasRealTimestamps /\ hour <= 4
        THEN Signal(10, "Off-hours login activity") ELSE NoSignal

MissingDeviceRule(hasRealDevices, current) ==
    IF hasRealDevices /\ Trim(current.device_id) = ""
    THEN Signal(20, "Missing device fingerprint") ELSE NoSignal

\* a plausible slip: a dataset without real coordinates is reported as spoofed
GeoRuleUngated(hasRealGeo, current) ==
    LET latInvalid == isNaN(current.lat) \/ current.lat < -90 * Scale \/ current.lat > 90 * Scale
        lonInvalid == isNaN(current.long) \/ current.long < -180 * Scale
                      \/ current.long > 180 * Scale
    IN  IF ~hasRealGeo \/ latInvalid \/ lonInvalid
        THEN Signal(35, "Invalid or spoofed geolocation coordinates") ELSE NoSignal

GeoRule(hasRealGeo, current) ==
    LET latInvalid == isNaN(current.lat) \/ current.lat < -90 * Scale \/ current.lat > 90 * Scale
        lonInvalid == isNaN(current.long) \/ current.long < -180 * Scale
                      \/ current.long > 180 * Scale
    IN  IF hasRealGeo /\ (latInvalid \/ lonInvalid)
        THEN Signal(35, "Invalid or spoofed geolocation coordinates") ELSE NoSignal

FailedLoginRule(current) ==
    IF ToLowerCase(Coalesce(current.login_result, "")) = "failed"
    THEN Signal(18, "Failed authentication attempt") ELSE NoSignal

\* (ts - prevTime) / 60000, or Infinity
MinutesApart(ts, prevTime) ==
    IF isNaN(ts) \/ isNaN(prevTime) THEN Infinity ELSE ts - prevTime

DeviceSwitchRule(hasRealDevices, previous, current, minutesApart, cfg) ==
    IF /\ hasRealDevices
       /\ previous.device_id # ""
       /\ current.device_id # ""
       /\ previous.device_id # current.device_id
       /\ minutesApart # Infinity
       /\ minutesApart <= cfg.rapidDeviceSwitchMinutes
    THEN Signal(22, "Rapid device switching detected") ELSE NoSignal

\* speed = distance / (minutesApart / 60) compared with a limit
SpeedAbove(distance, minutesApart, limit) ==
    IF minutesApart = Infinity THEN 0 > limit
    ELSE distance * 60 > limit * minutesApart

\* Math.round(speed)
RoundedSpeed(distance, minutesApart) ==
    IF minutesApart = Infinity THEN 0
    ELSE (distance * 120 + minutesApart) \div (2 * minutesApart)

TravelReason(distance, minutesApart) ==
    "Impossible travel pattern (" \o NatString(RoundedSpeed(distance, minutesApart)) \o " km/h)"

\* a plausible slip: the elapsed minutes are not converted to hours
TravelSignalPerMinute(distance, minutesApart, cfg) ==
    IF /\ ~isNaN(distance)
       /\ distance > 350
       /\ SpeedAbove(distance,
                     IF minutesApart = Infinity THEN Infinity ELSE 60 * minutesApart,
                     cfg.impossibleTravelSpeedKmh)
    THEN Signal(30, TravelReason(distance, minutesApart))
    ELSE NoSignal

TravelRulePerMinute(hasRealGeo, previous, current, minutesApart, cfg) ==
    IF /\ hasRealGeo
       /\ ~isNaN(previous.lat) /\ ~isNaN(previous.long)
       /\ ~isNaN(current.lat) /\ ~isNaN(current.long)
       /\ minutesApart > 0
    THEN TravelSignalPerMinute(
             haversineKm(previous.lat, previous.long, current.lat, current.long),
             minutesApart, cfg)
    ELSE NoSignal

\* the test on the distance and the speed
TravelSignal(distance, minutesApart, cfg) ==
    IF /\ ~isNaN(distance)
       /\ distance > 350
       /\ SpeedAbove(distance, minutesApart, cfg.impossibleTravelSpeedKmh)
    THEN Signal(30, TravelReason(distance, minutesApart))
    ELSE NoSignal

TravelRule(hasRealGeo, previous, current, minutesApart, cfg) ==
    IF /\ hasRealGeo
       /\ ~isNaN(previous.lat) /\ ~isNaN(previous.long)
       /\ ~isNaN(current.lat) /\ ~isNaN(current.long)
       /\ minutesApart > 0
    THEN TravelSignal(haversineKm(previous.lat, previous.long, current.lat, current.long),
                      minutesApart, cfg)
    ELSE NoSignal

IpShiftRule(previous, current, minutesApart) ==
    IF /\ Truthy(previous.ip_address)
       /\ Truthy(current.ip_address)
       /\ previous.ip_address # current.ip_address
       /\ minutesApart # Infinity
       /\ minutesApart <= 15
    THEN Signal(12, "Fast IP reputation shift detected") ELSE NoSignal

\* the events of the subject inside [ts - window, ts]
WithinWindow(t, ts, cfg) == ~isNaN(t) /\ t >= ts - cfg.burstWindowMinutes /\ t <= ts

RecentCount(userEvents, ts, cfg) ==
    IF isNaN(ts) THEN 0
    ELSE Cardinality({k \in 1..Len(userEvents) :
                         WithinWindow(GetTime(userEvents[k].timestamp), ts, cfg)})

\* a plausible slip: the event itself is not counted
BurstRuleExclusive(hasRealTimestamps, userEvents, ts, cfg) ==
    IF hasRealTimestamps /\ RecentCount(userEvents, ts, cfg) - 1 >= cfg.burstEventCount
    THEN Signal(18, "Unusual login burst frequency") ELSE NoSignal

BurstRule(hasRealTimestamps, userEvents, ts, cfg) ==
    IF hasRealTimestamps /\ RecentCount(userEvents, ts, cfg) >= cfg.burstEventCount
    THEN Signal(18, "Unusual login burst frequency") ELSE NoSignal

\* the statistical rules share one shape: with a spread in the population the
\* z-score decides, without one the fixed floor does
OutlierRule(value, stats, floor, delta, zReason, floorReason) ==
    IF StdPositive(stats)
    THEN IF ZScoreHigh(value, stats)
         THEN Signal(delta, zReason \o " (" \o NumString(value) \o ")") ELSE NoSignal
    ELSE IF value >= floor * Scale
         THEN Signal(delta, floorReason \o " (" \o NumString(value) \o ")") ELSE NoSignal

AnomalousFlagRule(anomalousFlag) ==
    IF anomalousFlag = 1 * Scale
    THEN Signal(15, "Flagged as anomalous activity in dataset") ELSE NoSignal

SensitiveAccessRule(sensitiveAccess) ==
    IF sensitiveAccess = 1 * Scale
    THEN Signal(10, "Accessed sensitive/restricted data") ELSE NoSignal

MfaRule(current, mfaEnabled) ==
    IF HasBehavioral(current, "mfa_enabled") /\ mfaEnabled = 0
    THEN Signal(12, "Multi-factor authentication disabled") ELSE NoSignal

FailedLoginsRule(failedLogins) ==
    IF failedLogins >= 5 * Scale
    THEN Signal(18, "High failed login attempts (" \o NumString(failedLogins) \o ")")
    ELSE IF failedLogins >= 3 * Scale
    THEN Signal(10, "Elevated failed login attempts (" \o NumString(failedLogins) \o ")")
    ELSE NoSignal

IncidentsRule(incidents, behavioralStats) ==
    OutlierRule(incidents, behavioralStats.incident_reports,
                4, 14, "Abnormal incident report count", "High incident reports")

PasswordResetsRule(pwdResets, behavioralStats) ==
    OutlierRule(pwdResets, behavioralStats.password_resets,
                4, 12, "Frequent password resets", "Frequent password resets")

FailedTransactionsRule(failedTx, behavioralStats) ==
    OutlierRule(failedTx, behavioralStats.failed_transactions,
                5, 12, "Abnormal failed transactions", "High failed transactions")

DeviceConsistencyRule(current, deviceConsistency) ==
    IF HasBehavioral(current, "device_consistency") /\ deviceConsistency = 0
    THEN Signal(10, "Inconsistent device usage pattern") ELSE NoSignal

LocationConsistencyRule(current, locationConsistency) ==
    IF HasBehavioral(current, "location_consistency") /\ locationConsistency = 0
    THEN Signal(10, "Inconsistent access location pattern") ELSE NoSignal

LoginConsistencyRule(current, loginConsistency) ==
    IF HasBehavioral(current, "login_consistency") /\ loginConsistency <= 2 * Scale
    THEN Signal(8, "Low login time consistency (" \o NumString(loginConsistency) \o "/10)")
    ELSE NoSignal

\* the behavioural checks, in their order; each reads its field with getBehavioral
BehavioralSignal(field, current, value, behavioralStats) ==
    CASE field = "anomalous_activity" -> AnomalousFlagRule(value)
      [] field = "access_sensitive" -> SensitiveAccessRule(value)
      [] field = "mfa_enabled" -> MfaRule(current, value)
      [] field = "failed_logins" -> FailedLoginsRule(value)
      [] field = "incident_reports" -> IncidentsRule(value, behavioralStats)
      [] field = "password_resets" -> PasswordResetsRule(value, behavioralStats)
      [] field = "failed_transactions" -> FailedTransactionsRule(value, behavioralStats)
      [] field = "device_consistency" -> DeviceConsistencyRule(current, value)
      [] field = "location_consistency" -> LocationConsistencyRule(current, value)
      [] field = "login_consistency" -> LoginConsistencyRule(current, value)

CheckedFields ==
    <<"anomalous_activity", "access_sensitive", "mfa_enabled", "failed_logins",
      "incident_reports", "password_resets", "failed_transactions",
      "device_consistency", "location_consistency", "login_consistency">>

Concat(seqs) ==
    LET RECURSIVE Go(_)
        Go(k) == IF k > Len(seqs) THEN <<>> ELSE seqs[k] \o Go(k + 1)
    IN  Go(1)

BehavioralRules(current, behavioralStats) ==
    Concat([k \in 1..Len(CheckedFields) |->
               BehavioralSignal(CheckedFields[k], current,
                                getBehavioral(current, CheckedFields[k]), behavioralStats)])

(***************************************************************************)
(* detectIdentityTheft (detection.ts): feature gates, scoring loop and     *)
(* aggregation                                                             *)
(***************************************************************************)
\* the feature gates and the population statistics, taken over the input events
Gates(evs) ==
    [hasRealGeo |-> \E k \in 1..Len(evs) : evs[k].lat # 0 \/ evs[k].long # 0,
     hasRealTimestamps |-> \E k \in 1..Len(evs) : ~isNaN(GetTime(evs[k].timestamp)),
     hasRealDevices |-> \E k \in 1..Len(evs) : evs[k].device_id \notin {"unknown", ""},
     hasBehavioralData |-> Len(evs) > 0 /\ DOMAIN evs[1].extra # {}]

StatFields ==
    {"failed_logins", "incident_reports", "password_resets", "failed_transactions",
     "access_frequency"}

BehavioralStats(evs) == [field \in StatFields |-> computeStats(evs, field)]

\* the rules on a consecutive pair of one subject
PairRules(gates, cfg, previous, current, minutesApart) ==
    DeviceSwitchRule(gates.hasRealDevices, previous, current, minutesApart, cfg)
    \o TravelRule(gates.hasRealGeo, previous, current, minutesApart, cfg)
    \o IpShiftRule(previous, current, minutesApart)

\* the rules of one iteration; current is userEvents[i], ts its time value
SignalsAt(gates, behavioralStats, cfg, userEvents, i, current, ts) ==
    OffHoursRule(gates.hasRealTimestamps, ts)
    \o MissingDeviceRule(gates.hasRealDevices, current)
    \o GeoRule(gates.hasRealGeo, current)
    \o FailedLoginRule(current)
    \o (IF i > 1 /\ gates.hasRealTimestamps
        THEN PairRules(gates, cfg, userEvents[i - 1], current,
                       MinutesApart(ts, GetTime(userEvents[i - 1].timestamp)))
        ELSE NoSignal)
    \o BurstRule(gates.hasRealTimestamps, userEvents, ts, cfg)
    \o (IF gates.hasBehavioralData
        THEN BehavioralRules(current, behavioralStats) ELSE NoSignal)

\* the signals of userEvents[i], in the order the rules are evaluated
EventSignals(gates, behavioralStats, cfg, userEvents, i) ==
    SignalsAt(gates, behavioralStats, cfg, userEvents, i, userEvents[i],
              GetTime(userEvents[i].timestamp))

\* `let score = 5` plus every delta
RawScore(signals) == 5 + Sum([k \in 1..Len(signals) |-> signals[k].delta])


\* a plausible slip: the upper bound is not applied
clampBelowOnly(value, min, max) == Max(min, value)

clamp(value, min, max) == Min(max, Max(min, value))

riskLevel(score, cfg) ==
    IF score >= cfg.criticalThreshold THEN "high"
    ELSE IF score >= cfg.warningThreshold THEN "medium"
    ELSE "low"

\* the EventRisk pushed for userEvents[i]
EventRiskOf(current, cfg, reasons, normalizedScore) ==
    [rowId |-> current.rowId,
     userId |-> current.user_id,
     timestamp |-> current.timestamp,
     score |-> normalizedScore,
     level |-> riskLevel(normalizedScore, cfg),
     reasons |-> reasons]

ScoredSignals(current, cfg, signals) ==
    EventRiskOf(current, cfg, [k \in 1..Len(signals) |-> signals[k].reason],
                clamp(RawScore(signals), 0, 100))

ScoreEvent(gates, behavioralStats, cfg, userEvents, i) ==
    ScoredSignals(userEvents[i], cfg,
                  EventSignals(gates, behavioralStats, cfg, userEvents, i))

\* Array.prototype.sort with a consistent comparator `key(a) - key(b)`: ascending
\* by key, equal keys in their input order
StableSortBy(seq, Key(_)) ==
    LET n == Len(seq)
        keys == [i \in 1..n |-> Key(seq[i])]
        pos == [i \in 1..n |-> 1 + Cardinality({j \in 1..n :
                      \/ keys[j] < keys[i]
                      \/ (keys[j] = keys[i] /\ j < i)})]
    IN  [k \in 1..n |-> seq[CHOOSE i \in 1..n : pos[i] = k]]

Reorderings(seq) ==
    LET n == Len(seq)
    IN  {[k \in 1..n |-> seq[p[k]]] :
            p \in {q \in [1..n -> 1..n] : \A i, j \in 1..n : q[i] = q[j] => i = j}}

TimeOf(event) == GetTime(event.timestamp)

\* a plausible slip: `events.sort(...)` without the copy sorts the caller's array
EventsSortedInPlace(evs, sorted) == sorted

\* the caller's events array after the call: `[...events]` copies it before the
\* sort, and no event object is written to
EventsAfterSort(evs, sorted) == evs

\* The comparator of the first sort returns NaN when a timestamp is invalid,
\* which the sort reads as "equal". It is a consistent comparator only if no
\* timestamp is invalid or all valid ones are equal; otherwise the order is
\* implementation-defined.
ComparatorConsistent(evs) ==
    \/ \A k \in 1..Len(evs) : ~isNaN(TimeOf(evs[k]))
    \/ \A j, k \in 1..Len(evs) :
          (~isNaN(TimeOf(evs[j])) /\ ~isNaN(TimeOf(evs[k]))) => TimeOf(evs[j]) = TimeOf(evs[k])

\* the orders `[...events].sort(...)` may produce
SortOutcomes(evs) ==
    IF \A k \in 1..Len(evs) : ~isNaN(TimeOf(evs[k])) THEN {StableSortBy(evs, TimeOf)}
    ELSE IF ComparatorConsistent(evs) THEN {evs}
    ELSE Reorderings(evs)

\* the keys of perUser, in insertion order
UsersInOrder(evs) == DistinctKeys([k \in 1..Len(evs) |-> evs[k].user_id])

\* the inner loop over the events of one subject
ScoreUser(gates, behavioralStats, cfg, userEvents) ==
    [i \in 1..Len(userEvents) |-> ScoreEvent(gates, behavioralStats, cfg, userEvents, i)]

\* the outer loop over perUser.entries()
ScoreUsers(gates, behavioralStats, cfg, sorted, users) ==
    Concat([u \in 1..Len(users) |->
               ScoreUser(gates, behavioralStats, cfg,
                         SelectSeq(sorted, LAMBDA e : e.user_id = users[u]))])

\* the scoring loop: subjects in perUser order, each subject's events in sorted order
ScoreAll(evs, cfg, sorted) ==
    ScoreUsers(Gates(evs), BehavioralStats(evs), cfg, sorted, UsersInOrder(sorted))

SortByScore(items) == StableSortBy(items, LAMBDA item : 0 - item.score)

\* n.toString().padStart(width, '0')
PadStart(n, width) ==
    LET s == NatString(n)
    IN  IF Len(s) >= width THEN s ELSE SubSeq("0000", 1, width - Len(s)) \o s

AlertTitle(level) ==
    IF level = "high" THEN "Potential Identity Theft Attempt"
    ELSE IF level = "medium" THEN "Suspicious Login Behavior"
    ELSE "Low Risk Activity"

\* a plausible slip: the rank in the id counts from zero
AlertsOfZeroBased(eventRisk) ==
    [index \in 1..Len(eventRisk) |->
        [id |-> "ALT-" \o PadStart(index - 1, 4),
         severity |-> eventRisk[index].level,
         userId |-> eventRisk[index].userId,
         title |-> AlertTitle(eventRisk[index].level),
         description |-> IF eventRisk[index].reasons = <<>>
                         THEN "Composite anomaly score exceeded threshold"
                         ELSE eventRisk[index].reasons[1],
         timestamp |-> eventRisk[index].timestamp,
         score |-> eventRisk[index].score]]

\* `.map((item, index) => ({ id, severity, ... }))` over the score-sorted list
AlertsOf(eventRisk) ==
    [index \in 1..Len(eventRisk) |->
        LET item == eventRisk[index]
        IN  [id |-> "ALT-" \o PadStart(index, 4),
             severity |-> item.level,
             userId |-> item.userId,
             title |-> AlertTitle(item.level),
             description |-> IF item.reasons = <<>>
                             THEN "Composite anomaly score exceeded threshold"
                             ELSE item.reasons[1],
             timestamp |-> item.timestamp,
             score |-> item.score]]

CountWhere(seq, P(_)) == Cardinality({k \in 1..Len(seq) : P(seq[k])})

\* Number((total / count).toFixed(1)), in tenths; 0 for an empty list
AverageTenths(total, count) ==
    IF count = 0 THEN 0 ELSE (total * 20 + count) \div (2 * count)

\* a plausible slip: only the alerts above low are counted as anomalies
SummaryOfFlagged(totalEvents, totalUsers, eventRisk, alerts) ==
    [totalEvents |-> totalEvents,
     totalUsers |-> totalUsers,
     anomalyCount |-> CountWhere(alerts, LAMBDA a : a.severity # "low"),
     highRiskCount |-> CountWhere(alerts, LAMBDA a : a.severity = "high"),
     mediumRiskCount |-> CountWhere(alerts, LAMBDA a : a.severity = "medium"),
     lowRiskCount |-> CountWhere(alerts, LAMBDA a : a.severity = "low"),
     averageRiskScore |->
        AverageTenths(Sum([k \in 1..Len(eventRisk) |-> eventRisk[k].score]), Len(eventRisk))]

SummaryOf(totalEvents, totalUsers, eventRisk, alerts) ==
    [totalEvents |-> totalEvents,
     totalUsers |-> totalUsers,
     anomalyCount |-> Len(alerts),
     highRiskCount |-> CountWhere(alerts, LAMBDA a : a.severity = "high"),
     mediumRiskCount |-> CountWhere(alerts, LAMBDA a : a.severity = "medium"),
     lowRiskCount |-> CountWhere(alerts, LAMBDA a : a.severity = "low"),
     averageRiskScore |->
        AverageTenths(Sum([k \in 1..Len(eventRisk) |-> eventRisk[k].score]), Len(eventRisk))]

\* `${hour.toString().padStart(2, '0')}:00` for the hours 0..23
HourLabels == [h \in 1..24 |-> PadStart(h - 1, 2) \o ":00"]

toHourLabel(timestamp) ==
    HourLabels[1 + (IF isNaN(GetTime(timestamp)) THEN 0 ELSE GetHours(GetTime(timestamp)))]

\* the average of one hour bucket
BucketAverage(values) ==
    AverageTenths(Sum([k \in 1..Len(values) |-> values[k].score]), Len(values))

\* a plausible slip: only the hours that have events get an entry
HourBucketsPopulatedOnly(eventRisk, keys) ==
    SelectSeq([h \in 1..24 |->
                  [label |-> HourLabels[h],
                   value |-> BucketAverage(SelectIndices(eventRisk,
                                 {k \in 1..Len(eventRisk) : keys[k] = HourLabels[h]}))]],
              LAMBDA entry : \E k \in 1..Len(eventRisk) : keys[k] = entry.label)

\* keys[k] is the hour label of eventRisk[k]
HourBuckets(eventRisk, keys) ==
    [h \in 1..24 |->
        [label |-> HourLabels[h],
         value |-> BucketAverage(SelectIndices(eventRisk,
                       {k \in 1..Len(eventRisk) : keys[k] = HourLabels[h]}))]]

HourlyRiskTrend(eventRisk) ==
    HourBuckets(eventRisk, [k \in 1..Len(eventRisk) |-> toHourLabel(eventRisk[k].timestamp)])

\* the civil date of a day number (days from 1970-01-01), as YYYY-MM-DD
CivilLabel(y, m, d) == PadStart(y, 4) \o "-" \o PadStart(m, 2) \o "-" \o PadStart(d, 2)

CivilOfMonth(era, yoe, doy, mp) ==
    CivilLabel(yoe + era * 400 + (IF mp < 10 THEN 0 ELSE 1),
               IF mp < 10 THEN mp + 3 ELSE mp - 9,
               doy - (153 * mp + 2) \div 5 + 1)

CivilOfYear(era, doe, yoe) ==
    CivilOfMonth(era, yoe, doe - (365 * yoe + yoe \div 4 - yoe \div 100),
                 (5 * (doe - (365 * yoe + yoe \div 4 - yoe \div 100)) + 2) \div 153)

CivilOfEra(era, doe) ==
    CivilOfYear(era, doe, (doe - doe \div 1460 + doe \div 36524 - doe \div 146096) \div 365)

DateOfDay(day) ==
    CivilOfEra((day + 719468) \div 146097, (day + 719468) % 146097)

\* the UTC day of a timestamp; tz is the host's getTimezoneOffset()
UtcDay(timestamp, tz) == (GetTime(timestamp) + tz) \div 1440

toDateLabel(timestamp, tz) ==
    IF isNaN(GetTime(timestamp)) THEN "Unknown" ELSE DateOfDay(UtcDay(timestamp, tz))

Least(S) == CHOOSE x \in S : \A y \in S : x <= y

\* a set of numbers in ascending order
Ascending(S) ==
    LET RECURSIVE Go(_)
        Go(rest) == IF rest = {} THEN <<>>
                    ELSE <<Least(rest)>> \o Go(rest \ {Least(rest)})
    IN  Go(S)

\* .slice(-7) of the sorted buckets, each with its count
DayBuckets(dayKey, kept) ==
    [k \in 1..Len(kept) |->
        [label |-> IF kept[k] = Infinity THEN "Unknown" ELSE DateOfDay(kept[k]),
         value |-> Cardinality({a \in 1..Len(dayKey) : dayKey[a] = kept[k]})]]

\* a plausible slip: .slice(0, 7) keeps the oldest buckets
FirstSeven(ordered) == SubSeq(ordered, 1, Min(7, Len(ordered)))

LastSeven(ordered) == SubSeq(ordered, Max(1, Len(ordered) - 6), Len(ordered))

\* dayKey[k] is the UTC day of alerts[k], Infinity standing for "Unknown"
\* dayBuckets sorted by label (localeCompare puts "Unknown" after every date),
\* the last seven kept
DayTrend(dayKey) == DayBuckets(dayKey, LastSeven(Ascending(Range(dayKey))))

DailyAlertTrend(alerts, tz) ==
    DayTrend([k \in 1..Len(alerts) |->
                 IF isNaN(GetTime(alerts[k].timestamp)) THEN Infinity
                 ELSE UtcDay(alerts[k].timestamp, tz)])

\* users in Set insertion order, scored, sorted by maxScore, the first eight
TopRiskUsers(evs, eventRisk, alerts) ==
    LET users == UsersInOrder(evs)
        entries == [u \in 1..Len(users) |->
            LET userEvents == SelectSeq(eventRisk, LAMBDA e : e.userId = users[u])
            IN  [userId |-> users[u],
                 maxScore |-> LET RECURSIVE Best(_)
                                  Best(k) == IF k = 0 THEN 0
                                             ELSE Max(Best(k - 1), userEvents[k].score)
                              IN  Best(Len(userEvents)),
                 alertCount |-> CountWhere(alerts, LAMBDA a : a.userId = users[u])]]
    IN  FirstN(StableSortBy(entries, LAMBDA entry : 0 - entry.maxScore), 8)

ResultOf(evs, tz, eventRisk, alerts) ==
    [eventRisk |-> eventRisk,
     alerts |-> alerts,
     summary |-> SummaryOf(Len(evs), Cardinality({evs[k].user_id : k \in 1..Len(evs)}),
                           eventRisk, alerts),
     hourlyRiskTrend |-> HourlyRiskTrend(eventRisk),
     dailyAlertTrend |-> DailyAlertTrend(alerts, tz),
     topRiskUsers |-> TopRiskUsers(evs, eventRisk, alerts)]

Aggregate(evs, tz, eventRisk) == ResultOf(evs, tz, eventRisk, AlertsOf(eventRisk))

\* detectIdentityTheft(events, settings); sorted is the order the first sort
\* produced (one of SortOutcomes(evs)), tz the host's timezone offset
detectIdentityTheft(evs, cfg, sorted, tz) ==
    Aggregate(evs, tz, SortByScore(ScoreAll(evs, cfg, sorted)))

(***************************************************************************)
(* Driver of parseCsvLine: every line over CsvAlphabet up to MaxLineLen,   *)
(* and the lines of the documentation's examples                           *)
(***************************************************************************)
MaxLineLen == 5

CsvAlphabet == {"a", ",", "\"", " "}

RECURSIVE StringsUpTo(_, _)
StringsUpTo(alphabet, n) ==
    IF n = 0 THEN {""}
    ELSE LET shorter == StringsUpTo(alphabet, n - 1)
         IN  shorter \cup {s \o c : s \in shorter, c \in alphabet}

SpringfieldLine == "7,\"Springfield, IL\",ok"
EscapedQuoteLine == "\"say \"\"hi\"\", now\",b"

CsvLines == StringsUpTo(CsvAlphabet, MaxLineLen) \cup {SpringfieldLine, EscapedQuoteLine}

CsvInit ==
    /\ csvLine \in CsvLines
    /\ csvFields = <<>>
    /\ csvDone = FALSE

CsvIdle ==
    /\ csvLine = ""
    /\ csvFields = <<>>
    /\ csvDone = FALSE

ParseCsvLineCall ==
    /\ ~csvDone
    /\ csvFields' = parseCsvLine(csvLine)
    /\ csvDone' = TRUE
    /\ UNCHANGED csvLine
    /\ UNCHANGED otherThanCsv

(***************************************************************************)
(* Driver of the schema mapper and the three parsers: every header list    *)
(* over HeaderPool up to MaxHeaders, as a CSV, a JSON and a text document  *)
(* with two data rows                                                      *)
(***************************************************************************)
MaxHeaders == 5
MaxRepeatedHeaders == 3

PoolOrder == <<"user", "time", "lat", "lng", "device", "Login Time", "notes">>
HeaderPool == Range(PoolOrder)

RECURSIVE SeqsUpTo(_, _)
SeqsUpTo(S, n) ==
    IF n = 0 THEN {<<>>}
    ELSE LET shorter == SeqsUpTo(S, n - 1)
         IN  shorter \cup {Append(q, x) : q \in shorter, x \in S}

\* the lists without a repeated header
RECURSIVE DistinctSeqsUpTo(_, _)
DistinctSeqsUpTo(S, n) ==
    IF n = 0 THEN {<<>>}
    ELSE LET shorter == DistinctSeqsUpTo(S, n - 1)
         IN  shorter \cup UNION {{Append(q, x) : x \in S \ Range(q)} : q \in shorter}

\* every list (in any order, with repeats) up to MaxRepeatedHeaders; the longer
\* ones, up to MaxHeaders, are selections of the pool in its column order
InOrder(q) ==
    \A i, j \in 1..Len(q) : i < j =>
        \E a, b \in 1..Len(PoolOrder) : a < b /\ PoolOrder[a] = q[i] /\ PoolOrder[b] = q[j]

HeaderLists ==
    SeqsUpTo(HeaderPool, MaxRepeatedHeaders)
    \cup {q \in DistinctSeqsUpTo(HeaderPool, MaxHeaders) : InOrder(q)}

\* the cells of the two data rows, by column position
DataCells == <<
    <<"u1", "2026-02-25T03:00", "40.7128", "-74.006", "d1", "f6", "f7", "f8">>,
    <<"u2", "2026-02-25T03:10", "35.6762", "139.6503", "d2", "g6", "g7", "g8">> >>

CsvDocument(headers) ==
    Join(headers, ",") \o "\n"
    \o Join(FirstN(DataCells[1], Len(headers)), ",") \o "\r\n"
    \o Join(FirstN(DataCells[2], Len(headers)), ",") \o "\n"

JsonRecord(headers, cells) ==
    "{" \o Join([i \in 1..Len(headers) |->
                   "\"" \o headers[i] \o "\": \"" \o cells[i] \o "\""], ", ") \o "}"

JsonDocument(headers) ==
    "[" \o JsonRecord(headers, DataCells[1]) \o ", " \o JsonRecord(headers, DataCells[2]) \o "]"

TextDocument(headers) ==
    "Login report\n"
    \o Join(headers, "\t") \o "\n"
    \o Join(FirstN(DataCells[1], Len(headers)), "  ") \o "\n"
    \o Join(FirstN(DataCells[2], Len(headers)), " | ") \o "\n"

\* JSON documents with other roots, for the header list of RootHeaders: an
\* object with up to MaxRootProps properties, each named as one of the four
\* conventional names or otherwise, and holding the array of records, an
\* empty array, a string or null; and roots that are no object
MaxRootProps == 2

RootHeaders == {<<"user", "time">>}

RootNames == {"events", "data", "records", "rows", "meta"}

RootValues(headers) == {JsonDocument(headers), "[]", "\"none\"", "null"}

RootObject(props) ==
    "{" \o Join([i \in 1..Len(props) |-> "\"" \o props[i][1] \o "\": " \o props[i][2]], ", ")
    \o "}"

RootDocuments(headers) ==
    IF headers \notin RootHeaders THEN {}
    ELSE {RootObject(props) :
             props \in {q \in SeqsUpTo(RootNames \X RootValues(headers), MaxRootProps) :
                           \A i, j \in 1..Len(q) : i # j => q[i][1] # q[j][1]}}
         \cup {"null", "7", "\"text\"", "true", "[]", "[", ""}

\* texts that mix the three formats, for the header lists of up to two
\* headers: the CSV document, the JSON document after a line with or without a
\* comma, and the table after a line with a bracketed note
MixedHeaders == {q \in HeaderLists : Len(q) <= 2}

MixedDocuments(headers) ==
    IF headers \notin MixedHeaders THEN {}
    ELSE {CsvDocument(headers),
          "Report, page 1\n" \o JsonDocument(headers),
          "Export of logins\n" \o JsonDocument(headers) \o "\nend of export\n",
          "See note [1]\n" \o TextDocument(headers),
          "Logins, see [x]\n" \o TextDocument(headers)}

NotParsed == Thrown("not parsed yet")

MapInit ==
    /\ hdrs \in HeaderLists
    /\ colMapping = NoMapping
    /\ parseOut = NotParsed
    /\ mapPc = "input"
    /\ docText = ""

MapIdle ==
    /\ hdrs = <<>>
    /\ colMapping = NoMapping
    /\ parseOut = NotParsed
    /\ mapPc = "input"
    /\ docText = ""

\* autoMapColumns(hdrs), and the same call once more
AutoMapCall ==
    /\ mapPc \in {"input", "map"}
    /\ colMapping' = AutoMapAfter(hdrs, colMapping)
    /\ mapPc' = IF mapPc = "input" THEN "map" ELSE "remap"
    /\ UNCHANGED <<hdrs, parseOut, docText>>
    /\ UNCHANGED otherThanMap

ParseCsvCall ==
    /\ mapPc = "input"
    /\ docText' = CsvDocument(hdrs)
    /\ parseOut' = parseLoginCsv(docText')
    /\ mapPc' = "csv"
    /\ UNCHANGED <<hdrs, colMapping>>
    /\ UNCHANGED otherThanMap

\* parseLoginJson of the plain array document ("json"), or of a document with
\* another root ("root")
ParseJsonCall ==
    /\ mapPc = "input"
    /\ \E doc \in {JsonDocument(hdrs)} \cup RootDocuments(hdrs) :
          /\ docText' = doc
          /\ parseOut' = parseLoginJson(doc)
          /\ mapPc' = IF doc = JsonDocument(hdrs) THEN "json" ELSE "root"
    /\ UNCHANGED <<hdrs, colMapping>>
    /\ UNCHANGED otherThanMap

\* parseLoginFromText of the table document ("text"), or of a text that mixes
\* the formats ("mixed")
ParseTextCall ==
    /\ mapPc = "input"
    /\ \E doc \in {TextDocument(hdrs)} \cup MixedDocuments(hdrs) :
          /\ docText' = doc
          /\ parseOut' = parseLoginFromText(doc)
          /\ mapPc' = IF doc = TextDocument(hdrs) THEN "text" ELSE "mixed"
    /\ UNCHANGED <<hdrs, colMapping>>
    /\ UNCHANGED otherThanMap

(***************************************************************************)
(* Driver of detectIdentityTheft: event lists up to MaxEvents over a pool  *)
(* of login events, the burst lists of one subject, a pool of settings     *)
(***************************************************************************)
MaxEvents == 3
MaxBurstEvents == 6

NoExtra == [key \in {} |-> ""]

LoginShape(user, timestamp, lat, long, device, ip, loginResult, extra) ==
    [user_id |-> user, timestamp |-> timestamp, lat |-> lat, long |-> long,
     device_id |-> device, ip_address |-> ip, login_result |-> loginResult, extra |-> extra]

BehaviouralExtra ==
    [anomalousactivity |-> "1", accesstosensitivedata |-> "1", mfaenabled |-> "0",
     failedloginattempts |-> "7", incidentreports |-> "4", passwordresets |-> "4",
     failedtransactions |-> "5", deviceconsistency |-> "0", locationconsistency |-> "0",
     loginconsistency |-> "2"]

NewYork == LoginShape("u1", "2026-02-25T03:00", 407128, -740060, "d1", "ip1", "success", NoExtra)
Tokyo == LoginShape("u1", "2026-02-25T03:15", 356762, 1396503, "d2", "ip2", "FAILED", NoExtra)
Spoofed == LoginShape("u1", "2026-02-25T03:15", 950000, -740060, "", "ip3", "failed", NoExtra)
Nearby == LoginShape("u1", "2026-02-25T03:20", 399526, -751652, "d1", "ip1", "success", NoExtra)
Quiet == LoginShape("u2", "2026-02-25T12:00", 0, 0, "unknown", Undefined, Undefined, NoExtra)
Undated == LoginShape("u1", "n/a", 0, 0, "d1", "ip1", "success", NoExtra)
ZeroGeoFailed == LoginShape("u1", "2026-02-25T03:00", 0, 0, "", "ip1", "failed", NoExtra)
NoLatitude == LoginShape("u2", "2026-02-25T12:10", NaN, 0, "d3", "ip1", Undefined, NoExtra)
Behavioural ==
    LoginShape("u2", "2026-02-25T12:00", 0, 0, "unknown", Undefined, Undefined, BehaviouralExtra)

EventPool ==
    {NewYork, Tokyo, Spoofed, Nearby, Quiet, Undated, ZeroGeoFailed, NoLatitude, Behavioural}

\* a list of shapes as LoginEvents: rowId is the 1-based position, as every
\* parser and addEvent assign it
WithRowIds(shapes) ==
    [i \in 1..Len(shapes) |-> [rowId |-> i] @@ shapes[i]]

\* one subject's logins two minutes apart from 03:10, and one 48 minutes later
BurstTimes ==
    <<"2026-02-27T03:10", "2026-02-27T03:12", "2026-02-27T03:14", "2026-02-27T03:16",
      "2026-02-27T03:18", "2026-02-27T03:20", "2026-02-27T03:58">>

BurstLogin(k) ==
    LoginShape("eve", BurstTimes[k], 557558, 376173, "d1", "ip1", "success", NoExtra)

Reverse(seq) == [i \in 1..Len(seq) |-> seq[Len(seq) + 1 - i]]

\* every choice of up to MaxBurstEvents of the burst logins, oldest first and
\* newest first
BurstLists ==
    LET chosen == {S \in SUBSET (1..Len(BurstTimes)) : S # {} /\ Cardinality(S) <= MaxBurstEvents}
        OldestFirst(S) == SelectIndices([k \in 1..Len(BurstTimes) |-> BurstLogin(k)], S)
    IN  {OldestFirst(S) : S \in chosen} \cup {Reverse(OldestFirst(S)) : S \in chosen}

EventLists ==
    {WithRowIds(shapes) : shapes \in SeqsUpTo(EventPool, MaxEvents) \cup BurstLists}

\* thresholds only differ from the defaults
LaxSettings == [DEFAULT_SETTINGS EXCEPT !.warningThreshold = 40, !.criticalThreshold = 90]

\* the rule parameters differ from the defaults
TightSettings ==
    [DEFAULT_SETTINGS EXCEPT !.impossibleTravelSpeedKmh = 500,
                             !.rapidDeviceSwitchMinutes = 10,
                             !.burstWindowMinutes = 5,
                             !.burstEventCount = 2]

SettingsPool == {DEFAULT_SETTINGS, LaxSettings, TightSettings}

\* getTimezoneOffset() of the host: UTC, and UTC+9
TzOffsets == {0, -540}

Null == [null |-> TRUE]

DetInit ==
    /\ inEvents \in EventLists
    /\ inSettings \in SettingsPool
    /\ hostTz \in TzOffsets
    /\ sortPick = <<>>
    /\ outResult = Null

DetIdle ==
    /\ inEvents = <<>>
    /\ inSettings = DEFAULT_SETTINGS
    /\ sortPick = <<>>
    /\ outResult = Null

DetectCall ==
    /\ outResult = Null
    /\ \E sorted \in SortOutcomes(inEvents) :
          /\ sortPick' = sorted
          /\ inEvents' = EventsAfterSort(inEvents, sorted)
          /\ outResult' = detectIdentityTheft(inEvents, inSettings, sorted, hostTz)
    /\ UNCHANGED inSettings
    /\ UNCHANGED otherThanDet

(***************************************************************************)
(* Driver of the daily bucketing (detection.ts:849-858): alert lists with  *)
(* one alert on each of a choice of up to MaxTrendDays days, optionally    *)
(* alerts whose timestamp does not parse, a second alert on the first day, *)
(* and an early-morning alert, in ascending and in descending order        *)
(***************************************************************************)
MaxTrendDays == 8

\* noon of the k-th day, the first day being the last of February
TrendStamp(k) ==
    IF k = 1 THEN "2026-02-28T12:00" ELSE "2026-03-" \o PadStart(k - 1, 2) \o "T12:00"

AlertAt(timestamp) == [userId |-> "u1", timestamp |-> timestamp]

\* 03:00 on the second day: the day before in UTC for a host east of it
EarlyStamp == "2026-03-01T03:00"

UndatedAlerts == {<<>>, <<AlertAt("n/a")>>, <<AlertAt("n/a"), AlertAt("")>>}

AlertLists ==
    {IF backwards THEN Reverse(list) ELSE list :
        backwards \in BOOLEAN,
        list \in {undated \o SeqMap(Ascending(days), LAMBDA k : AlertAt(TrendStamp(k))) \o more :
                    undated \in UndatedAlerts,
                    days \in SUBSET (1..MaxTrendDays),
                    more \in {<<>>, <<AlertAt(TrendStamp(1))>>, <<AlertAt(EarlyStamp)>>}}}

NoTrend == [done |-> FALSE, trend |-> <<>>]

TrendInit ==
    /\ trendAlerts \in AlertLists
    /\ trendOut = NoTrend

TrendIdle ==
    /\ trendAlerts = <<>>
    /\ trendOut = NoTrend

\* the dayBuckets loop and the sort, slice and map that follow it
DailyTrendCall ==
    /\ ~trendOut.done
    /\ trendOut' = [done |-> TRUE, trend |-> DailyAlertTrend(trendAlerts, hostTz)]
    /\ UNCHANGED trendAlerts
    /\ UNCHANGED otherThanTrend

(***************************************************************************)
(* liveResult (DetectionContext.tsx): the stored result re-derived under   *)
(* the current thresholds                                                  *)
(***************************************************************************)
\* a plausible slip: the level stored at detection time is kept
StoredLevel(item, warningThreshold, criticalThreshold) == item.level

LiveLevel(item, warningThreshold, criticalThreshold) ==
    IF item.score >= criticalThreshold THEN "high"
    ELSE IF item.score >= warningThreshold THEN "medium"
    ELSE "low"

LiveAlerts(liveEventRisk) ==
    [index \in 1..Len(liveEventRisk) |->
        LET item == liveEventRisk[index]
        IN  [id |-> "ALT-" \o PadStart(index, 4),
             severity |-> item.level,
             userId |-> item.userId,
             title |-> AlertTitle(item.level),
             description |-> IF item.reasons = <<>>
                             THEN "Composite anomaly score exceeded threshold"
                             ELSE item.reasons[1],
             timestamp |-> item.timestamp,
             score |-> item.score]]

\* a plausible slip: only alerts above low are counted as anomalies
LiveSummaryAboveLow(stored, liveEventRisk, liveAlerts) ==
    [SummaryOf(stored.summary.totalEvents,
               Cardinality({liveEventRisk[k].userId : k \in 1..Len(liveEventRisk)}),
               liveEventRisk, liveAlerts)
     EXCEPT !.anomalyCount = CountWhere(liveAlerts, LAMBDA a : a.severity # "low")]

LiveSummary(stored, liveEventRisk, liveAlerts) ==
    SummaryOf(stored.summary.totalEvents,
              Cardinality({liveEventRisk[k].userId : k \in 1..Len(liveEventRisk)}),
              liveEventRisk, liveAlerts)

\* userMap in insertion order (the order of the alerts), sorted, the first twenty
LiveTopRiskUsers(liveAlerts) ==
    LET users == DistinctKeys([k \in 1..Len(liveAlerts) |-> liveAlerts[k].userId])
        entries == [u \in 1..Len(users) |->
            LET mine == SelectSeq(liveAlerts, LAMBDA a : a.userId = users[u])
            IN  [userId |-> users[u],
                 maxScore |-> LET RECURSIVE Best(_)
                                  Best(k) == IF k = 0 THEN 0
                                             ELSE Max(Best(k - 1), mine[k].score)
                              IN  Best(Len(mine)),
                 alertCount |-> Len(mine)]]
    IN  FirstN(StableSortBy(entries, LAMBDA entry : 0 - entry.maxScore), 20)

\* the stored result after the derivation: `.map` and `{ ...item, level }` build
\* new values, and the sort of liveAlerts works on the new array
StoredAfterLive(stored, cfg) == stored

LiveResult(stored, cfg) ==
    IF stored = Null THEN Null
    ELSE LET liveEventRisk ==
                 SortByScore([k \in 1..Len(stored.eventRisk) |->
                     [stored.eventRisk[k] EXCEPT !.level =
                         LiveLevel(stored.eventRisk[k], cfg.warningThreshold,
                                   cfg.criticalThreshold)]])
             liveAlerts == LiveAlerts(liveEventRisk)
         IN  [eventRisk |-> liveEventRisk,
              alerts |-> liveAlerts,
              summary |-> LiveSummary(stored, liveEventRisk, liveAlerts),
              hourlyRiskTrend |-> stored.hourlyRiskTrend,
              dailyAlertTrend |-> stored.dailyAlertTrend,
              topRiskUsers |-> LiveTopRiskUsers(liveAlerts)]

(***************************************************************************)
(* DetectionProvider (DetectionContext.tsx): the state and its operations  *)
(***************************************************************************)
MaxStoredEvents == 2

\* parseError === null
NoParseError == "<null>"

UnsupportedMessage == "Unsupported file type. Please upload a CSV, JSON, or PDF file."
NoDatasetMessage == "Upload a valid login dataset before running detection."

CanonicalHeaders ==
    <<"user_id", "timestamp", "lat", "long", "device_id", "ip_address", "login_result">>

EndsWith(s, suffix) ==
    Len(s) >= Len(suffix) /\ SubSeq(s, Len(s) - Len(suffix) + 1, Len(s)) = suffix

\* formatSize, for files under one mebibyte
formatSize(bytes) ==
    IF bytes < 1024 THEN NatString(bytes) \o " B"
    ELSE LET tenths == (bytes * 20 + 1024) \div 2048
         IN  NatString(tenths \div 10) \o "." \o NatString(tenths % 10) \o " KB"

\* a File: its name and its text (for a PDF, the text of its pages)
File(name, text) == [name |-> name, text |-> text]

GoodCsv ==
    File("Logins.CSV", "user,time,lat,lng,device\nu1,2026-02-25T12:00,40.7128,-74.006,d1\n"
                       \o "u1,2026-02-25T12:15,35.6762,139.6503,d2")
BadCsv == File("broken.csv", "user,lat\nu1,4")
GoodJson == File("logins.json", "[{\"user\":\"u2\",\"time\":\"n/a\",\"mfa\":\"0\"}]")
\* the page repeats the header row, which the table parser skips
GoodPdf == File("report.pdf", "user|time\nuser|time\nu1|2026-02-25T03:00")
TextNote == File("notes.txt", "user,time\nu1,2026-02-25T12:00")

Files == {GoodCsv, BadCsv, GoodJson, GoodPdf, TextNote}

NoUpload == File("", "")

\* the parser uploadFile picks by the lower-cased file name
ParseFile(file) ==
    LET name == ToLowerCase(file.name)
    IN  IF EndsWith(name, ".csv") THEN parseLoginCsv(file.text)
        ELSE IF EndsWith(name, ".json") THEN parseLoginJson(file.text)
        ELSE parseLoginFromText(file.text)

Supported(file) ==
    LET name == ToLowerCase(file.name)
    IN  EndsWith(name, ".csv") \/ EndsWith(name, ".json") \/ EndsWith(name, ".pdf")

\* the logins of the manual-entry form: New York at noon, Tokyo a quarter of
\* an hour later with a failed login, and a login without coordinates
ManualNewYork ==
    LoginShape("u1", "2026-02-25T12:00", 407128, -740060, "d1", "ip1", "success", NoExtra)
ManualTokyo ==
    LoginShape("u1", "2026-02-25T12:15", 356762, 1396503, "d2", "ip2", "failed", NoExtra)
ManualPlain ==
    LoginShape("u2", "tomorrow", 0, 0, "", Undefined, Undefined, NoExtra)

ManualEntries == {ManualNewYork, ManualTokyo, ManualPlain}

\* stand-ins for generateSampleDataset(n): a normal login and the burst pattern
SampleDatasets == {WithRowIds(<<Quiet, BurstLogin(1), BurstLogin(2)>>)}

Thresholds(cfg) == <<cfg.warningThreshold, cfg.criticalThreshold>>

\* what the claims compare of a result: levels, alerts and summary
Bundle(result) ==
    IF result = Null THEN Null
    ELSE [levels |-> [k \in 1..Len(result.eventRisk) |-> result.eventRisk[k].level],
          alerts |-> result.alerts,
          summary |-> result.summary]

NothingSeen == [t \in {} |-> Null]

liveResult == LiveResult(detectionResult, settings)

CtxInit ==
    /\ settings = DEFAULT_SETTINGS
    /\ datasetInfo = Null
    /\ events = <<>>
    /\ detectionResult = Null
    /\ parseError = NoParseError
    /\ upload = NoUpload
    /\ lastRun = Null
    /\ requested = Thresholds(DEFAULT_SETTINGS)
    /\ seen = NothingSeen
    /\ revisited = FALSE

\* a plausible slip: the critical threshold only ever rises
SettingsRatchet(current, next) ==
    [next EXCEPT !.criticalThreshold = Max(current.criticalThreshold, next.criticalThreshold)]

\* setSettingsRaw(next)
SettingsAfterSet(current, next) == next

\* the history variables when the stored result becomes `stored`
ForgetSeen(stored, cfg) ==
    /\ seen' = IF stored = Null THEN NothingSeen
               ELSE (requested :> Bundle(LiveResult(stored, cfg)))
    /\ revisited' = FALSE
    /\ IF stored = Null THEN lastRun' = Null ELSE TRUE

\* a plausible slip: applying settings drops the stored result, as the handlers
\* that change the events do
setSettingsClearing(next) ==
    /\ settings' = SettingsAfterSet(settings, next)
    /\ requested' = Thresholds(next)
    /\ detectionResult' = Null
    /\ ForgetSeen(Null, settings')
    /\ UNCHANGED <<datasetInfo, events, parseError, upload>>
    /\ UNCHANGED otherThanCtx

setSettings(next) ==
    /\ settings' = SettingsAfterSet(settings, next)
    /\ requested' = Thresholds(next)
    /\ IF detectionResult = Null \/ Thresholds(next) \in DOMAIN seen
       THEN seen' = seen
       ELSE seen' = seen @@ (Thresholds(next) :> Bundle(LiveResult(detectionResult, settings')))
    /\ revisited' = (revisited \/ (detectionResult # Null /\ Thresholds(next) \in DOMAIN seen
                                    /\ Thresholds(next) # requested))
    /\ UNCHANGED <<datasetInfo, events, detectionResult, parseError, upload, lastRun>>
    /\ UNCHANGED otherThanCtx

\* uploadFile up to its first await
uploadFileStart(file) ==
    /\ upload = NoUpload
    /\ detectionResult' = Null
    /\ IF Supported(file)
       THEN parseError' = NoParseError /\ upload' = file
       ELSE parseError' = UnsupportedMessage /\ upload' = upload
    /\ ForgetSeen(Null, settings)
    /\ UNCHANGED <<settings, datasetInfo, events, requested>>
    /\ UNCHANGED otherThanCtx

\* a plausible slip: a failed parse also drops the dataset that was loaded
UploadOutcomeClearing(file, parsed) ==
    IF parsed.error = NoError
    THEN /\ events' = parsed.events
         /\ datasetInfo' = [fileName |-> file.name,
                            fileSizeLabel |-> formatSize(Len(file.text)),
                            uploadedAtLabel |-> "Uploaded just now",
                            headers |-> parsed.headers,
                            columnMapping |-> parsed.mapping]
         /\ parseError' = parseError
    ELSE /\ parseError' = parsed.error
         /\ events' = <<>>
         /\ datasetInfo' = Null

\* uploadFile after the file has been read
\* setEvents and setDatasetInfo after a parse, setParseError after a throw
UploadOutcome(file, parsed) ==
    IF parsed.error = NoError
    THEN /\ events' = parsed.events
         /\ datasetInfo' = [fileName |-> file.name,
                            fileSizeLabel |-> formatSize(Len(file.text)),
                            uploadedAtLabel |-> "Uploaded just now",
                            headers |-> parsed.headers,
                            columnMapping |-> parsed.mapping]
         /\ parseError' = parseError
    ELSE /\ parseError' = parsed.error
         /\ UNCHANGED <<events, datasetInfo>>

uploadFileFinish ==
    /\ upload # NoUpload
    /\ UploadOutcome(upload, ParseFile(upload))
    /\ upload' = NoUpload
    /\ UNCHANGED <<settings, detectionResult, lastRun, requested, seen, revisited>>
    /\ UNCHANGED otherThanCtx

loadEvents(newEvents, label) ==
    /\ parseError' = NoParseError
    /\ detectionResult' = Null
    /\ events' = newEvents
    /\ datasetInfo' = [fileName |-> label,
                       fileSizeLabel |-> NatString(Len(newEvents)) \o " records",
                       uploadedAtLabel |-> "Loaded just now",
                       headers |-> CanonicalHeaders,
                       columnMapping |-> Null]
    /\ ForgetSeen(Null, settings)
    /\ UNCHANGED <<settings, upload, requested>>
    /\ UNCHANGED otherThanCtx

addEvent(event) ==
    /\ Len(events) < MaxStoredEvents
    /\ parseError' = NoParseError
    /\ detectionResult' = Null
    /\ events' = Append(events, [rowId |-> Len(events) + 1] @@ event)
    /\ datasetInfo' = [fileName |-> IF datasetInfo = Null THEN "Manual entries"
                                    ELSE datasetInfo.fileName,
                       fileSizeLabel |-> NatString(Len(events) + 1) \o " records",
                       uploadedAtLabel |-> "Updated just now",
                       headers |-> CanonicalHeaders,
                       columnMapping |-> Null]
    /\ ForgetSeen(Null, settings)
    /\ UNCHANGED <<settings, upload, requested>>
    /\ UNCHANGED otherThanCtx

\* a plausible slip: no test of events.length, the engine is run on no events
runDetectionUnguarded ==
    /\ \E sorted \in SortOutcomes(events) :
          /\ events' = EventsAfterSort(events, sorted)
          /\ detectionResult' = detectIdentityTheft(events, settings, sorted, hostTz)
          /\ lastRun' = [events |-> events, settings |-> settings, sorted |-> sorted]
          /\ parseError' = NoParseError
          /\ ForgetSeen(detectionResult', settings)
    /\ UNCHANGED <<settings, datasetInfo, upload, requested>>
    /\ UNCHANGED otherThanCtx

runDetection ==
    /\ IF events = <<>>
       THEN /\ parseError' = NoDatasetMessage
            /\ UNCHANGED <<events, detectionResult, lastRun, seen, revisited>>
       ELSE \E sorted \in SortOutcomes(events) :
               /\ events' = EventsAfterSort(events, sorted)
               /\ detectionResult' = detectIdentityTheft(events, settings, sorted, hostTz)
               /\ lastRun' = [events |-> events, settings |-> settings, sorted |-> sorted]
               /\ parseError' = NoParseError
               /\ ForgetSeen(detectionResult', settings)
    /\ UNCHANGED <<settings, datasetInfo, upload, requested>>
    /\ UNCHANGED otherThanCtx

clearDataset ==
    /\ datasetInfo' = Null
    /\ events' = <<>>
    /\ detectionResult' = Null
    /\ parseError' = NoParseError
    /\ ForgetSeen(Null, settings)
    /\ UNCHANGED <<settings, upload, requested>>
    /\ UNCHANGED otherThanCtx

CtxIdle == CtxInit

SetSettingsCall == \E next \in SettingsPool : setSettings(next)
UploadFileCall == \E file \in Files : uploadFileStart(file)
LoadEventsCall == \E sample \in SampleDatasets : loadEvents(sample, "sample-login-activity.csv")
AddEventCall == \E event \in ManualEntries : addEvent(event)

(***************************************************************************)
(* SystemConfig: the draft settings of the Policy Controls page            *)
(***************************************************************************)
\* the positions of a range input: min, min + step, ... up to max
SliderValues(min, max, step) == {v \in min..max : (v - min) % step = 0}

WarningValues == SliderValues(10, 90, 5)
CriticalValues == SliderValues(20, 100, 5)

\* updateDraft: setDraft((prev) => ({ ...prev, [key]: value }))
updateDraft(prev, key, value) == [prev EXCEPT ![key] = value]

\* a plausible slip: the warning slider moves without pushing the critical one
WarningChangePlain(shown, v) == updateDraft(shown, "warningThreshold", v)

\* onChange of the Warning Threshold slider; `shown` is the draft of the render
\* the handler closed over, and both updates apply to the same draft in order
WarningChange(shown, v) ==
    LET first == updateDraft(shown, "warningThreshold", v)
    IN  IF v >= shown.criticalThreshold
        THEN updateDraft(first, "criticalThreshold", Min(v + 10, 100))
        ELSE first

\* onChange of the Critical Threshold slider
CriticalChange(shown, v) ==
    LET first == updateDraft(shown, "criticalThreshold", v)
    IN  IF v <= shown.warningThreshold
        THEN updateDraft(first, "warningThreshold", Max(v - 10, 0))
        ELSE first

\* hasChanges: JSON.stringify(draft) !== JSON.stringify(settings)
hasChanges == draft # settings

WarningSliderCall ==
    /\ \E v \in WarningValues : draft' = WarningChange(draft, v)
    /\ UNCHANGED otherThanCfg

CriticalSliderCall ==
    /\ \E v \in CriticalValues : draft' = CriticalChange(draft, v)
    /\ UNCHANGED otherThanCfg

\* Reset Defaults
handleReset ==
    /\ draft' = DEFAULT_SETTINGS
    /\ UNCHANGED otherThanCfg

\* Discard, enabled only while there are changes
handleDiscard ==
    /\ hasChanges
    /\ draft' = settings
    /\ UNCHANGED otherThanCfg

\* Apply Settings, enabled only while there are changes; the effect that
\* follows the new settings sets the draft to a copy of them, which it already is
handleSave ==
    /\ hasChanges
    /\ setSettings(draft)

\* the settings restored at start-up that the sliders can show
StartSettings ==
    {[DEFAULT_SETTINGS EXCEPT !.warningThreshold = w, !.criticalThreshold = c] :
        <<w, c>> \in {<<55, 80>>, <<40, 90>>, <<10, 20>>, <<90, 100>>, <<45, 50>>}}

CfgInit ==
    /\ settings \in StartSettings
    /\ draft = settings
    /\ requested = Thresholds(settings)
    /\ datasetInfo = Null
    /\ events = <<>>
    /\ detectionResult = Null
    /\ parseError = NoParseError
    /\ upload = NoUpload
    /\ lastRun = Null
    /\ seen = NothingSeen
    /\ revisited = FALSE

\* useState({ ...settings }) at mount
CfgIdle == draft = DEFAULT_SETTINGS

(***************************************************************************)
(* Specifications                                                          *)
(***************************************************************************)
UtcHost == hostTz = 0

InitCsv == CsvInit /\ MapIdle /\ DetIdle /\ TrendIdle /\ CtxIdle /\ CfgIdle /\ UtcHost
NextCsv == ParseCsvLineCall
SpecCsv == InitCsv /\ [][NextCsv]_vars

InitMap == MapInit /\ CsvIdle /\ DetIdle /\ TrendIdle /\ CtxIdle /\ CfgIdle /\ UtcHost
NextMap == AutoMapCall \/ ParseCsvCall \/ ParseJsonCall \/ ParseTextCall
SpecMap == InitMap /\ [][NextMap]_vars

InitDetect == DetInit /\ CsvIdle /\ MapIdle /\ TrendIdle /\ CtxIdle /\ CfgIdle
NextDetect == DetectCall
SpecDetect == InitDetect /\ [][NextDetect]_vars

InitTrend == TrendInit /\ hostTz \in TzOffsets /\ CsvIdle /\ MapIdle /\ DetIdle /\ CtxIdle /\ CfgIdle
NextTrend == DailyTrendCall
SpecTrend == InitTrend /\ [][NextTrend]_vars

Init == CtxInit /\ hostTz \in TzOffsets /\ CsvIdle /\ MapIdle /\ DetIdle /\ TrendIdle /\ CfgIdle
Next ==
    \/ SetSettingsCall
    \/ UploadFileCall
    \/ uploadFileFinish
    \/ LoadEventsCall
    \/ AddEventCall
    \/ runDetection
    \/ clearDataset
Spec == Init /\ [][Next]_vars

InitConfig == CfgInit /\ CsvIdle /\ MapIdle /\ DetIdle /\ TrendIdle /\ UtcHost
NextConfig ==
    \/ WarningSliderCall
    \/ CriticalSliderCall
    \/ handleReset
    \/ handleDiscard
    \/ handleSave
SpecConfig == InitConfig /\ [][NextConfig]_vars

(***************************************************************************)
(* Reading a result: the deltas the documentation gives for each reason     *)
(***************************************************************************)
StartsWith(s, prefix) == Len(s) >= Len(prefix) /\ SubSeq(s, 1, Len(prefix)) = prefix

GeoReason == "Invalid or spoofed geolocation coordinates"
TravelPrefix == "Impossible travel pattern ("
BurstReason == "Unusual login burst frequency"

ReasonDeltas ==
    << <<"Off-hours login activity", 10>>,
       <<"Missing device fingerprint", 20>>,
       <<GeoReason, 35>>,
       <<"Failed authentication attempt", 18>>,
       <<"Rapid device switching detected", 22>>,
       <<TravelPrefix, 30>>,
       <<"Fast IP reputation shift detected", 12>>,
       <<BurstReason, 18>>,
       <<"Flagged as anomalous activity in dataset", 15>>,
       <<"Accessed sensitive/restricted data", 10>>,
       <<"Multi-factor authentication disabled", 12>>,
       <<"High failed login attempts (", 18>>,
       <<"Elevated failed login attempts (", 10>>,
       <<"Abnormal incident report count (", 14>>,
       <<"High incident reports (", 14>>,
       <<"Frequent password resets (", 12>>,
       <<"Abnormal failed transactions (", 12>>,
       <<"High failed transactions (", 12>>,
       <<"Inconsistent device usage pattern", 10>>,
       <<"Inconsistent access location pattern", 10>>,
       <<"Low login time consistency (", 8>> >>

ReasonDelta(reason) ==
    LET hit == FindIndex(Len(ReasonDeltas), LAMBDA k : StartsWith(reason, ReasonDeltas[k][1]))
    IN  IF hit = 0 THEN 0 ELSE ReasonDeltas[hit][2]

\* baseline 5 plus the delta of every reason of an EventRisk
SummedScore(item) == 5 + Sum([k \in 1..Len(item.reasons) |-> ReasonDelta(item.reasons[k])])

Detected == outResult # Null

\* the EventRisk of the input event with this rowId
RiskOf(rowId) ==
    outResult.eventRisk[CHOOSE k \in 1..Len(outResult.eventRisk) :
                            outResult.eventRisk[k].rowId = rowId]

HasReason(item, prefix) == \E k \in 1..Len(item.reasons) : StartsWith(item.reasons[k], prefix)

\* the subjects, and one subject's events in the order the scoring loop saw them
Subjects == {inEvents[k].user_id : k \in 1..Len(inEvents)}
UserEventsOf(user) == SelectSeq(sortPick, LAMBDA e : e.user_id = user)

(***************************************************************************)
(* C1                                                                      *)
(***************************************************************************)
\* C1: every EventRisk of a result has an integer score in 0..100, equal to
\* the baseline 5 plus the deltas of its reasons, capped at 100; it is exactly 5
\* when the event has no reason.
C1_ScoreBounds ==
    Detected =>
        \A k \in 1..Len(outResult.eventRisk) :
            LET item == outResult.eventRisk[k]
            IN  /\ item.score \in 0..100
                /\ item.score = (IF SummedScore(item) > 100 THEN 100 ELSE SummedScore(item))
                /\ (item.reasons = <<>> => item.score = 5)

C1_Witness ==
    /\ Detected
    /\ \E k \in 1..Len(outResult.eventRisk) :
          SummedScore(outResult.eventRisk[k]) > 100 /\ outResult.eventRisk[k].score = 100
    /\ \E k \in 1..Len(outResult.eventRisk) :
          outResult.eventRisk[k].reasons = <<>> /\ outResult.eventRisk[k].score = 5

(***************************************************************************)
(* C8                                                                      *)
(***************************************************************************)
\* the later event of a pair the claim speaks of: valid times, time moving
\* forward, more than 350 km apart, faster than the configured speed
TravelsImpossibly(previous, current) ==
    LET tp == GetTime(previous.timestamp)
        tc == GetTime(current.timestamp)
        km == haversineKm(previous.lat, previous.long, current.lat, current.long)
    IN  /\ ~isNaN(tp) /\ ~isNaN(tc) /\ tc - tp > 0
        /\ ~isNaN(previous.lat) /\ ~isNaN(previous.long)
        /\ ~isNaN(current.lat) /\ ~isNaN(current.long)
        /\ ~isNaN(km) /\ km > 350
        /\ km * 60 > inSettings.impossibleTravelSpeedKmh * (tc - tp)

\* New York then Tokyo a quarter of an hour later
NewYorkThenTokyo(previous, current) ==
    /\ previous.lat = 407128 /\ previous.long = -740060
    /\ current.lat = 356762 /\ current.long = 1396503
    /\ ~isNaN(GetTime(previous.timestamp))
    /\ GetTime(current.timestamp) = GetTime(previous.timestamp) + 15

\* C8: the later event of two consecutive events of a subject that are an
\* impossible journey carries the impossible-travel reason, and its score is
\* the capped sum that includes the reason's +30; so it is for New York then
\* Tokyo 15 minutes later under the default settings.
C8_ImpossibleTravel ==
    Detected =>
        \A user \in Subjects :
            \A i \in 2..Len(UserEventsOf(user)) :
                LET previous == UserEventsOf(user)[i - 1]
                    current == UserEventsOf(user)[i]
                    item == RiskOf(current.rowId)
                IN  (\/ TravelsImpossibly(previous, current)
                     \/ (inSettings = DEFAULT_SETTINGS /\ NewYorkThenTokyo(previous, current)))
                    => /\ HasReason(item, TravelPrefix)
                       /\ item.score = (IF SummedScore(item) > 100 THEN 100
                                        ELSE SummedScore(item))
                       /\ SummedScore(item) >= 5 + 30

C8_Witness ==
    /\ Detected
    /\ inSettings = DEFAULT_SETTINGS
    /\ inEvents = WithRowIds(<<Tokyo, NewYork>>)
    /\ HasReason(RiskOf(1), TravelPrefix)
    /\ RiskOf(1).score = 97
    /\ ~HasReason(RiskOf(2), TravelPrefix)

(***************************************************************************)
(* C9                                                                      *)
(***************************************************************************)
\* the events of the same subject as inEvents[k] whose time lies in the window
\* that ends at the time of inEvents[k]
InWindow(k) ==
    LET t == GetTime(inEvents[k].timestamp)
    IN  {j \in 1..Len(inEvents) :
            /\ inEvents[j].user_id = inEvents[k].user_id
            /\ ~isNaN(t)
            /\ ~isNaN(GetTime(inEvents[j].timestamp))
            /\ GetTime(inEvents[j].timestamp) >= t - inSettings.burstWindowMinutes
            /\ GetTime(inEvents[j].timestamp) <= t}

\* the input is the six logins of one subject inside ten minutes, in some order
SixInTenMinutes ==
    /\ Len(inEvents) = 6
    /\ {inEvents[k].timestamp : k \in 1..6} = {BurstTimes[k] : k \in 1..6}

AllZeroGeo == \A k \in 1..Len(inEvents) : inEvents[k].lat = 0 /\ inEvents[k].long = 0

C5Headers == <<"user", "time", "lat", "lng", "device">>

C5Mapped ==
    [user_id |-> "user", timestamp |-> "time", lat |-> "lat", long |-> "lng",
     device_id |-> "device"]

\* C5 as stated: the five headers map to user_id, timestamp, lat, long and
\* device_id, with an empty defaults list and an empty ignored list.
C5_AsStated ==
    (mapPc = "map" /\ hdrs = C5Headers) =>
        /\ colMapping.mapped = C5Mapped
        /\ colMapping.defaults = <<>>
        /\ colMapping.ignored = <<>>

\* C5 amended: the five headers map as stated and none is ignored, but the
\* defaults list holds the two optional fields no header matches, ip_address
\* and login_result, in that order.
C5_FiveHeadersMapped ==
    (mapPc = "map" /\ hdrs = C5Headers) =>
        /\ colMapping.mapped = C5Mapped
        /\ colMapping.defaults = <<"ip_address", "login_result">>
        /\ colMapping.ignored = <<>>

C5_Witness ==
    /\ mapPc = "map"
    /\ hdrs = C5Headers
    /\ DOMAIN colMapping.mapped = {"user_id", "timestamp", "lat", "long", "device_id"}

(***************************************************************************)
(* C6                                                                      *)
(***************************************************************************)
\* the header list a parser hands to autoMapColumns for the document of hdrs
HeadersSeen == IF mapPc = "json" THEN DistinctKeys(hdrs) ELSE hdrs

\* the parser got as far as the mapping step
ReachedMapper ==
    \/ mapPc = "csv" /\ Len(hdrs) >= 1
    \/ mapPc = "json"
    \/ mapPc = "text" /\ HeaderScore(Join(hdrs, "\t")) >= 2

UnmappedCritical ==
    {f \in Range(CRITICAL_FIELDS) : f \notin DOMAIN autoMapColumns(HeadersSeen).mapped}

\* C6: in each of the three parsers, when the mapping step leaves user_id or
\* timestamp unmapped the parse throws, the message names every unmapped
\* critical field, and no events, headers or mapping are returned.
C6_MissingCriticalThrows ==
    (ReachedMapper /\ UnmappedCritical # {}) =>
        /\ parseOut.error # NoError
        /\ \A f \in UnmappedCritical : Includes(parseOut.error, f)
        /\ parseOut.events = <<>>
        /\ parseOut.headers = <<>>
        /\ parseOut.mapping = NoMapping

C6_Witness ==
    /\ mapPc = "text"
    /\ hdrs = <<"user", "lat", "device">>
    /\ ReachedMapper
    /\ UnmappedCritical = {"timestamp"}
    /\ Includes(parseOut.error, "Could not identify critical columns: timestamp")

(***************************************************************************)
(* C7                                                                      *)
(***************************************************************************)
\* the number of double quotes before position i: a character is outside
\* quotes exactly when that number is even
QuotesBefore(line, i) == CountChar(SubSeq(line, 1, i - 1), "\"")

CommasOutsideQuotes(line) ==
    Cardinality({i \in 1..Len(line) : Char(line, i) = "," /\ QuotesBefore(line, i) % 2 = 0})

CommasInsideQuotes(line) ==
    Cardinality({i \in 1..Len(line) : Char(line, i) = "," /\ QuotesBefore(line, i) % 2 = 1})

\* a maximal run of k quotes starting at p: outside quotes its first quote
\* opens the field and the rest pair up, inside quotes they pair up at once
QuoteRunLen(line, p) ==
    CHOOSE k \in 1..Len(line) :
        /\ \A j \in p..(p + k - 1) : j <= Len(line) /\ Char(line, j) = "\""
        /\ (p + k > Len(line) \/ Char(line, p + k) # "\"")

EscapedQuotes(line) ==
    LET starts == {p \in 1..Len(line) :
                      /\ Char(line, p) = "\""
                      /\ (p = 1 \/ Char(line, p - 1) # "\"")}
        PairsAt(p) == IF QuotesBefore(line, p) % 2 = 0
                      THEN (QuoteRunLen(line, p) - 1) \div 2
                      ELSE QuoteRunLen(line, p) \div 2
        RECURSIVE SumOver(_)
        SumOver(S) == IF S = {} THEN 0
                      ELSE LET p == CHOOSE q \in S : TRUE IN PairsAt(p) + SumOver(S \ {p})
    IN  SumOver(starts)

RECURSIVE CountCharAll(_, _)
CountCharAll(fields, c) ==
    IF fields = <<>> THEN 0
    ELSE CountChar(Head(fields), c) + CountCharAll(Tail(fields), c)

\* C7: parseCsvLine returns (commas outside quotes) + 1 fields; every comma
\* inside quotes is a literal character of a field; every doubled quote inside
\* a quoted field is one literal quote; "Springfield, IL" stays one field.
C7_QuotedCommaKept ==
    csvDone =>
        /\ Len(csvFields) = CommasOutsideQuotes(csvLine) + 1
        /\ CountCharAll(csvFields, ",") = CommasInsideQuotes(csvLine)
        /\ CountCharAll(csvFields, "\"") = EscapedQuotes(csvLine)
        /\ (csvLine = SpringfieldLine => csvFields = <<"7", "Springfield, IL", "ok">>)
        /\ (csvLine = EscapedQuoteLine => csvFields = <<"say \"hi\", now", "b">>)

C7_Witness ==
    /\ csvDone
    /\ csvLine = SpringfieldLine
    /\ csvFields = <<"7", "Springfield, IL", "ok">>

(***************************************************************************)
(* Properties of the DetectionProvider (Spec)                              *)
(***************************************************************************)
OnlyThresholdsDiffer(a, b) ==
    /\ a.impossibleTravelSpeedKmh = b.impossibleTravelSpeedKmh
    /\ a.rapidDeviceSwitchMinutes = b.rapidDeviceSwitchMinutes
    /\ a.burstWindowMinutes = b.burstWindowMinutes
    /\ a.burstEventCount = b.burstEventCount

\* the classification spelled out from a score and the two thresholds
LevelFor(score, warningThreshold, criticalThreshold) ==
    CASE score >= criticalThreshold -> "high"
      [] score < criticalThreshold /\ score >= warningThreshold -> "medium"
      [] OTHER -> "low"

ThresholdsMoved ==
    /\ detectionResult # Null
    /\ lastRun # Null
    /\ Thresholds(lastRun.settings) # Thresholds(settings)

\* C2: when the settings S' now in force differ from the settings S of the
\* stored detection run only in the two thresholds, liveResult has the same
\* eventRisk list, the same alerts and the same summary as a full run
\* detectIdentityTheft(E, S') on the events E of that run.
C2_LiveMatchesFullRun ==
    (detectionResult # Null /\ OnlyThresholdsDiffer(lastRun.settings, settings)) =>
        LET full == detectIdentityTheft(lastRun.events, settings, lastRun.sorted, hostTz)
            live == liveResult
        IN  /\ live.eventRisk = full.eventRisk
            /\ live.alerts = full.alerts
            /\ live.summary = full.summary

\* a detection was run, the thresholds were changed afterwards, and an entry
\* of the live eventRisk list has another level than the stored one
C2_Witness ==
    /\ ThresholdsMoved
    /\ OnlyThresholdsDiffer(lastRun.settings, settings)
    /\ LET live == liveResult
       IN  /\ \E k \in 1..Len(detectionResult.eventRisk) :
                 live.eventRisk[k].level # detectionResult.eventRisk[k].level
           /\ live.summary.lowRiskCount > 0

\* C3: while the stored detectionResult stays the same, whenever thresholds
\* are requested through setSettings, liveResult shows the levels, alerts and
\* summary it showed when those thresholds were first requested; so
\* (w1,c1), (w2,c2), (w1,c1) ends with the bundle of the first (w1,c1).
C3_SettingsRoundTrip ==
    detectionResult # Null =>
        /\ requested \in DOMAIN seen
        /\ Bundle(liveResult) = seen[requested]

\* thresholds were requested again after others that gave another bundle
C3_Witness ==
    /\ detectionResult # Null
    /\ revisited
    /\ requested \in DOMAIN seen
    /\ \E other \in DOMAIN seen : seen[other] # seen[requested]

\* C4: whenever liveResult is non-null, each of its eventRisk entries and
\* each of its alerts is high when its score is at least the current
\* criticalThreshold, medium when it is not high and its score is at least
\* the current warningThreshold, low otherwise.
C4_LiveLevelsFollowThresholds ==
    LET live == liveResult
    IN  live # Null =>
            /\ \A k \in 1..Len(live.eventRisk) :
                  live.eventRisk[k].level =
                      LevelFor(live.eventRisk[k].score, settings.warningThreshold,
                               settings.criticalThreshold)
            /\ \A k \in 1..Len(live.alerts) :
                  live.alerts[k].severity =
                      LevelFor(live.alerts[k].score, settings.warningThreshold,
                               settings.criticalThreshold)

\* the thresholds were changed after the detection and an alert has another
\* severity than the stored alert of the same id
C4_Witness ==
    /\ ThresholdsMoved
    /\ LET live == liveResult
       IN  \E k \in 1..Len(live.alerts) :
              /\ live.alerts[k].id = detectionResult.alerts[k].id
              /\ live.alerts[k].severity # detectionResult.alerts[k].severity

(***************************************************************************)
(* C11                                                                     *)
(***************************************************************************)
\* "HH:00" of an hour of the day
HourName(hour) == (IF hour < 10 THEN "0" ELSE "") \o NatString(hour) \o ":00"

Dated(event) == ~isNaN(GetTime(event.timestamp))

\* the events whose parseable timestamp falls in this hour of the day
FallIn(hour) ==
    {k \in 1..Len(inEvents) :
        Dated(inEvents[k]) /\ GetHours(GetTime(inEvents[k].timestamp)) = hour}

\* C11 as stated: the hourly trend has 24 entries labelled 00:00 to 23:00 in
\* order, and an hour in which no event falls has value 0.
C11_AsStated ==
    Detected =>
        /\ Len(outResult.hourlyRiskTrend) = 24
        /\ \A hour \in 0..23 :
              /\ outResult.hourlyRiskTrend[hour + 1].label = HourName(hour)
              /\ FallIn(hour) = {} => outResult.hourlyRiskTrend[hour + 1].value = 0

\* C11 amended: the hourly trend has 24 entries labelled 00:00 to 23:00 in
\* order; an hour other than 00:00 in which no event falls has value 0, and
\* 00:00 has value 0 when no event falls in it and every timestamp is
\* parseable (the events with an unparseable timestamp are counted in 00:00).
C11_HourlyTrend ==
    Detected =>
        /\ Len(outResult.hourlyRiskTrend) = 24
        /\ \A hour \in 0..23 :
              /\ outResult.hourlyRiskTrend[hour + 1].label = HourName(hour)
              /\ (/\ FallIn(hour) = {}
                  /\ hour = 0 => \A k \in 1..Len(inEvents) : Dated(inEvents[k]))
                 => outResult.hourlyRiskTrend[hour + 1].value = 0

\* all events of a list of two or more fall in one hour, which alone has a
\* value above 0
C11_Witness ==
    /\ Detected
    /\ Len(inEvents) >= 2
    /\ \E hour \in 1..23 :
          /\ FallIn(hour) = 1..Len(inEvents)
          /\ outResult.hourlyRiskTrend[hour + 1].value > 0
          /\ \A other \in (0..23) \ {hour} : outResult.hourlyRiskTrend[other + 1].value = 0

(***************************************************************************)
(* C12                                                                     *)
(***************************************************************************)
FallbackDescription == "Composite anomaly score exceeded threshold"

\* a rank below 10000 in four digits
FourDigits(rank) ==
    (IF rank < 10 THEN "000" ELSE IF rank < 100 THEN "00" ELSE IF rank < 1000 THEN "0" ELSE "")
    \o NatString(rank)

\* the alerts of a result against its eventRisk list
AlertsWellFormed(result) ==
    /\ Len(result.alerts) = Len(result.eventRisk)
    /\ Len(result.alerts) = Len(inEvents)
    /\ {result.eventRisk[i].rowId : i \in 1..Len(result.eventRisk)}
          = {inEvents[k].rowId : k \in 1..Len(inEvents)}
    /\ \A i \in 1..Len(result.alerts) :
          /\ result.alerts[i].id = "ALT-" \o FourDigits(i)
          /\ result.alerts[i].score = result.eventRisk[i].score
          /\ result.alerts[i].userId = result.eventRisk[i].userId
          /\ result.alerts[i].timestamp = result.eventRisk[i].timestamp
          /\ result.alerts[i].description =
                IF result.eventRisk[i].reasons = <<>> THEN FallbackDescription
                ELSE result.eventRisk[i].reasons[1]
          /\ \A j \in (i + 1)..Len(result.alerts) :
                /\ result.alerts[i].score >= result.alerts[j].score
                /\ result.alerts[i].id # result.alerts[j].id

DetectReturns == outResult = Null /\ outResult' # Null

AboveLow(result) == {i \in 1..Len(result.eventRisk) : result.eventRisk[i].level # "low"}

\* C15: an alert is generated only for an event classified medium or high, so
\* that summary.anomalyCount counts the events that reached the warning
\* threshold (in the full result and in the live one).
C15_AlertsOnlyAboveLow ==
    Detected =>
        \A result \in {outResult} \cup {LiveResult(outResult, cfg) : cfg \in SettingsPool} :
            /\ \A i \in 1..Len(result.alerts) : result.alerts[i].severity \in {"medium", "high"}
            /\ result.summary.anomalyCount = Cardinality(AboveLow(result))

(***************************************************************************)
(* C16                                                                     *)
(***************************************************************************)
\* the positions of rawHeaders with the given header text
PositionsOf(rawHeaders, text) == {i \in 1..Len(rawHeaders) : rawHeaders[i] = text}

\* an assignment of a distinct position of hdrs to every mapped field, the
\* position holding the header the field was mapped from
ClaimsDistinctPositions(rawHeaders, mapping) ==
    \E claim \in [DOMAIN mapping.mapped -> 1..Len(rawHeaders)] :
        /\ \A f \in DOMAIN mapping.mapped : rawHeaders[claim[f]] = mapping.mapped[f]
        /\ \A f, g \in DOMAIN mapping.mapped : f # g => claim[f] # claim[g]

\* C16: in the mapping autoMapColumns returns, distinct canonical fields are
\* mapped from distinct header positions: a header text is the source of no
\* more fields than it has positions in the header list, and a position
\* claimed by a field is not among the ignored headers.
C16_NoPositionClaimedTwice ==
    mapPc \in {"map", "remap"} =>
        /\ ClaimsDistinctPositions(hdrs, colMapping)
        /\ \A text \in Range(hdrs) :
              Cardinality({f \in DOMAIN colMapping.mapped : colMapping.mapped[f] = text})
                 + Cardinality({k \in 1..Len(colMapping.ignored) : colMapping.ignored[k] = text})
              = Cardinality(PositionsOf(hdrs, text))

\* a header that would match two fields is claimed by the first, and the
\* later field takes another position or none
C16_Witness ==
    /\ mapPc = "map"
    /\ \E f \in DOMAIN colMapping.mapped :
          \E g \in Range(allFields) \ {f} :
             /\ MatchIndexIgnoringUsed([i \in 1..Len(hdrs) |-> NormalizeHeader(hdrs[i])], {}, g) # 0
             /\ hdrs[MatchIndexIgnoringUsed([i \in 1..Len(hdrs) |-> NormalizeHeader(hdrs[i])], {}, g)]
                   = colMapping.mapped[f]
             /\ Cardinality(PositionsOf(hdrs, colMapping.mapped[f])) = 1

(***************************************************************************)
(* C17                                                                     *)
(***************************************************************************)
OptionalFields == {"lat", "long", "device_id", "ip_address", "login_result"}

\* the fields that are neither mapped nor given a default
Unplaced(mapping) ==
    {f \in Range(allFields) : f \notin DOMAIN mapping.mapped /\ f \notin Range(mapping.defaults)}

\* the k-th smallest element of a set of positions
KthPosition(positions, k) ==
    CHOOSE p \in positions : Cardinality({q \in positions : q < p}) = k - 1

\* `listed` is the headers at the positions no field claimed, in input order,
\* for some assignment of distinct positions to the mapped fields
IgnoredAreTheUnclaimed(rawHeaders, mapping) ==
    \E claim \in [DOMAIN mapping.mapped -> 1..Len(rawHeaders)] :
        LET free == (1..Len(rawHeaders)) \ {claim[f] : f \in DOMAIN mapping.mapped}
        IN  /\ \A f \in DOMAIN mapping.mapped : rawHeaders[claim[f]] = mapping.mapped[f]
            /\ \A f, g \in DOMAIN mapping.mapped : f # g => claim[f] # claim[g]
            /\ Len(mapping.ignored) = Cardinality(free)
            /\ \A k \in 1..Len(mapping.ignored) :
                  mapping.ignored[k] = rawHeaders[KthPosition(free, k)]

\* C17: for every header list, each of the seven canonical fields is in
\* exactly one class: mapped, defaults (only the five optional fields), or
\* neither (only user_id and timestamp, and then validateMapping throws);
\* ignored is the headers at the positions no field claimed, in input order,
\* so mapped fields plus ignored headers number the input headers.
C17_FieldsAndHeadersPartitioned ==
    mapPc \in {"map", "remap"} =>
        /\ DOMAIN colMapping.mapped \subseteq Range(allFields)
        /\ Cardinality(Range(allFields)) = 7
        /\ \A f \in Range(allFields) :
              ~(f \in DOMAIN colMapping.mapped /\ f \in Range(colMapping.defaults))
        /\ \A j, k \in 1..Len(colMapping.defaults) :
              j # k => colMapping.defaults[j] # colMapping.defaults[k]
        /\ Range(colMapping.defaults) \subseteq OptionalFields
        /\ Unplaced(colMapping) \subseteq {"user_id", "timestamp"}
        /\ (Unplaced(colMapping) # {}) <=> (validateMapping(colMapping) # NoError)
        /\ IgnoredAreTheUnclaimed(hdrs, colMapping)
        /\ Cardinality(DOMAIN colMapping.mapped) + Len(colMapping.ignored) = Len(hdrs)

\* a mapping with all three classes of fields, and an ignored header whose
\* text is also the source of a mapped field
C17_Witness ==
    /\ mapPc = "map"
    /\ DOMAIN colMapping.mapped # {}
    /\ colMapping.defaults # <<>>
    /\ Unplaced(colMapping) # {}
    /\ validateMapping(colMapping) # NoError
    /\ \E k \in 1..Len(colMapping.ignored) :
          \E f \in DOMAIN colMapping.mapped : colMapping.mapped[f] = colMapping.ignored[k]

(***************************************************************************)
(* C18                                                                     *)
(***************************************************************************)
\* the events of a subject's sequence with a parseable timestamp keep their
\* chronological order, ties in input order
ParseableInOrder(seq) ==
    \A i, j \in 1..Len(seq) :
        (i < j /\ ~isNaN(TimeOf(seq[i])) /\ ~isNaN(TimeOf(seq[j]))) =>
            \/ TimeOf(seq[i]) < TimeOf(seq[j])
            \/ (TimeOf(seq[i]) = TimeOf(seq[j]) /\ seq[i].rowId < seq[j].rowId)

\* the gap to the previous event of the sequence is never negative
NoNegativeGap(seq) ==
    \A i \in 2..Len(seq) : MinutesApart(TimeOf(seq[i]), TimeOf(seq[i - 1])) >= 0

\* C18: the per-subject sequence used for the previous-event comparisons is in
\* non-decreasing parsed-timestamp order with ties in input order, for every
\* input order, also when some events have unparseable timestamps (they do not
\* disturb the chronological order of the parseable ones); hence the gap to
\* the previous event is never negative.
C18_ChronologicalPerSubject ==
    Detected =>
        \A user \in Subjects :
            /\ ParseableInOrder(UserEventsOf(user))
            /\ NoNegativeGap(UserEventsOf(user))

(***************************************************************************)
(* C19                                                                     *)
(***************************************************************************)
\* the position of a subject's first event in the input
FirstSeen(user) == CHOOSE k \in 1..Len(inEvents) :
    inEvents[k].user_id = user /\ \A j \in 1..(k - 1) : inEvents[j].user_id # user

ScoresOf(result, user) ==
    {result.eventRisk[k].score : k \in {j \in 1..Len(result.eventRisk) : result.eventRisk[j].userId = user}}

\* topRiskUsers of a result as the ranking of the subjects, capped
RankedAsStated(result, cap) ==
    LET top == result.topRiskUsers
    IN  /\ Len(top) = IF Cardinality(Subjects) < cap THEN Cardinality(Subjects) ELSE cap
        /\ \A i \in 1..Len(top) :
              /\ top[i].userId \in Subjects
              /\ top[i].maxScore \in ScoresOf(result, top[i].userId)
              /\ \A s \in ScoresOf(result, top[i].userId) : s <= top[i].maxScore
              /\ top[i].alertCount =
                    Cardinality({k \in 1..Len(result.alerts) : result.alerts[k].userId = top[i].userId})
        /\ \A i, j \in 1..Len(top) :
              i < j =>
                 \/ top[i].maxScore > top[j].maxScore
                 \/ /\ top[i].maxScore = top[j].maxScore
                    /\ FirstSeen(top[i].userId) < FirstSeen(top[j].userId)

\* C19: topRiskUsers lists the subjects in non-increasing maxScore order,
\* equal maxScore in order of first appearance in the input events, at most 8
\* in the full result and 20 in the live one, with maxScore the maximum score
\* of the subject's events and alertCount the number of its alerts; the full
\* and the live result order the subjects alike, tie-break included.
C19_TopRiskUsersRanked ==
    Detected =>
        /\ RankedAsStated(outResult, 8)
        /\ \A cfg \in SettingsPool : RankedAsStated(LiveResult(outResult, cfg), 20)

\* the same for the full result alone
C19_FullRanked == Detected => RankedAsStated(outResult, 8)

(***************************************************************************)
(* C20                                                                     *)
(***************************************************************************)
\* YYYY-MM-DD
IsDateLabel(label) ==
    /\ Len(label) = 10
    /\ Char(label, 5) = "-" /\ Char(label, 8) = "-"
    /\ IsDigits(SubSeq(label, 1, 4) \o SubSeq(label, 6, 7) \o SubSeq(label, 9, 10))

\* the rank of a label in the order of the sort: dates by year, month and day,
\* "Unknown" after every date
LabelRank(label) ==
    IF ~IsDateLabel(label) THEN Infinity
    ELSE DigitsValue(SubSeq(label, 1, 4), 0) * 10000
         + DigitsValue(SubSeq(label, 6, 7), 0) * 100 + DigitsValue(SubSeq(label, 9, 10), 0)

\* the labels on which an alert of the list falls
Populated == {toDateLabel(trendAlerts[k].timestamp, hostTz) : k \in 1..Len(trendAlerts)}

AlertsOn(label) ==
    Cardinality({k \in 1..Len(trendAlerts) : toDateLabel(trendAlerts[k].timestamp, hostTz) = label})

\* at most 7 entries, labels strictly ascending, each a populated label with
\* its number of alerts, and the kept ones the last of the populated
TrendOfLastSeven ==
    /\ Len(trendOut.trend) = Min(7, Cardinality(Populated))
    /\ \A i \in 1..Len(trendOut.trend) :
          /\ trendOut.trend[i].label \in Populated
          /\ trendOut.trend[i].value = AlertsOn(trendOut.trend[i].label)
          /\ trendOut.trend[i].value >= 1
          /\ \A j \in (i + 1)..Len(trendOut.trend) :
                LabelRank(trendOut.trend[i].label) < LabelRank(trendOut.trend[j].label)
    /\ \A dropped \in Populated \ {trendOut.trend[i].label : i \in 1..Len(trendOut.trend)} :
          \A i \in 1..Len(trendOut.trend) : LabelRank(dropped) < LabelRank(trendOut.trend[i].label)

\* the claim as stated: every label is a calendar date, also when some
\* timestamps are unparseable
C20_AsStated ==
    trendOut.done =>
        /\ TrendOfLastSeven
        /\ \A i \in 1..Len(trendOut.trend) : IsDateLabel(trendOut.trend[i].label)

\* C20: dailyAlertTrend has at most 7 entries with strictly ascending labels;
\* a label is the UTC calendar date (YYYY-MM-DD) of at least one alert, or
\* "Unknown", the one bucket of all alerts with an unparseable timestamp,
\* which sorts after every date; its value is the number of alerts of that
\* label; of more than 7 populated labels the last 7 are kept, "Unknown"
\* being one of them when it is populated.
C20_DailyTrend ==
    trendOut.done =>
        /\ TrendOfLastSeven
        /\ \A i \in 1..Len(trendOut.trend) :
              \/ IsDateLabel(trendOut.trend[i].label)
              \/ /\ trendOut.trend[i].label = "Unknown"
                 /\ i = Len(trendOut.trend)
                 /\ \E k \in 1..Len(trendAlerts) : isNaN(GetTime(trendAlerts[k].timestamp))
        /\ (\A k \in 1..Len(trendAlerts) : ~isNaN(GetTime(trendAlerts[k].timestamp)))
              => \A i \in 1..Len(trendOut.trend) : IsDateLabel(trendOut.trend[i].label)

\* more than 7 populated labels, "Unknown" with two alerts among the kept and
\* the two oldest dates dropped
C20_Witness ==
    /\ trendOut.done
    /\ Cardinality(Populated) = 9
    /\ Len(trendOut.trend) = 7
    /\ trendOut.trend[7] = [label |-> "Unknown", value |-> 2]
    /\ trendOut.trend[1].label = "2026-03-02"
    /\ "2026-02-28" \in Populated

(***************************************************************************)
(* C21                                                                     *)
(***************************************************************************)
ConventionalNames == <<"events", "data", "records", "rows">>

RootRejections ==
    {"Invalid JSON - file could not be parsed.",
     "JSON must be an array or contain an \"events\", \"data\", \"records\", or \"rows\" array.",
     "JSON must be an array of login event objects."}

EmptyListError == "JSON array is empty - at least one event is required."

\* the decoded root of the document handed to parseLoginJson
Root == JsonDecode(docText).val

\* the conventional properties of an object root that hold an array, in the
\* order of the names
ArraysOf(root) ==
    SelectSeq(ConventionalNames, LAMBDA name : JsProp(root, name).type = "array")

\* the conventional properties of an object root that hold anything but null
PresentIn(root) ==
    SelectSeq(ConventionalNames, LAMBDA name : JsProp(root, name).type # "null")

\* what parseLoginJson returns for a record list
OfRecords(items) ==
    IF items = <<>> THEN parseOut.error = EmptyListError
    ELSE parseOut = parseLoginJson(JsonDocument(hdrs))

\* C21: parseLoginJson accepts an array root, and an object root whenever one
\* of its properties events, data, records, rows holds an array, which is
\* then the record list; every other root is rejected with a descriptive
\* error, and an empty record list with its own error.
C21_RootAccepted ==
    (mapPc \in {"json", "root"} /\ JsonDecode(docText).ok) =>
        IF Root.type = "array" THEN OfRecords(Root.items) /\ parseOut.error \notin RootRejections
        ELSE IF Root.type = "object" /\ ArraysOf(Root) # <<>>
        THEN /\ parseOut.error \notin RootRejections
             /\ \E k \in 1..Len(ArraysOf(Root)) : OfRecords(JsProp(Root, ArraysOf(Root)[k]).items)
        ELSE parseOut.error \in RootRejections

\* what the code does: of an object root the first conventional property that
\* is present and not null decides, and the root is accepted when that one
\* holds an array
C21_FirstPresentDecides ==
    mapPc \in {"json", "root"} =>
        IF ~JsonDecode(docText).ok THEN parseOut.error = "Invalid JSON - file could not be parsed."
        ELSE IF Root.type = "array" THEN OfRecords(Root.items) /\ parseOut.error \notin RootRejections
        ELSE IF Root.type # "object"
        THEN parseOut.error = "JSON must be an array of login event objects."
        ELSE IF PresentIn(Root) # <<>> /\ JsProp(Root, PresentIn(Root)[1]).type = "array"
        THEN /\ OfRecords(JsProp(Root, PresentIn(Root)[1]).items)
             /\ parseOut.error \notin RootRejections
        ELSE parseOut.error \in RootRejections

(***************************************************************************)
(* C22                                                                     *)
(***************************************************************************)
\* the non-blank lines of the text handed to parseLoginFromText
TextLines == NonBlankLines(docText)

\* the delimited-text strategy applies, and what it gives
CsvApplies == Len(TextLines) > 0 /\ Includes(TextLines[1], ",")
CsvGives == parseLoginCsv(Join(TextLines, "\n"))

\* the embedded-array strategy applies, and what it gives
JsonApplies == JsonSpan(docText) # Undefined
JsonGives == parseLoginJson(JsonSpan(docText))

TableGives == parseTextTable(TextLines)

CsvSucceeds == CsvApplies /\ CsvGives.error = NoError
JsonSucceeds == JsonApplies /\ JsonGives.error = NoError

\* C22: parseLoginFromText returns what the first succeeding strategy gives,
\* in the order delimited text (only when the first non-blank line has a
\* comma), embedded JSON array, table scan; it throws only when every
\* applicable strategy failed, and then the error is the table scan's, never
\* the one the CSV or the JSON strategy raised.
C22_FirstSuccessfulStrategy ==
    mapPc \in {"text", "mixed"} =>
        /\ CsvSucceeds => parseOut = CsvGives
        /\ (~CsvSucceeds /\ JsonSucceeds) => parseOut = JsonGives
        /\ (~CsvSucceeds /\ ~JsonSucceeds) => parseOut = TableGives
        /\ parseOut.error # NoError =>
              /\ ~CsvSucceeds /\ ~JsonSucceeds /\ TableGives.error # NoError
              /\ parseOut.error = TableGives.error

\* the CSV strategy threw, and the embedded array gave the events
C22_Witness ==
    /\ mapPc = "mixed"
    /\ CsvApplies /\ CsvGives.error # NoError
    /\ JsonSucceeds
    /\ parseOut.error = NoError
    /\ Len(parseOut.events) = 2

\* the CSV and the JSON strategy both threw, and the table scan gave the events
C22_TableAfterBoth ==
    /\ mapPc = "mixed"
    /\ CsvApplies /\ CsvGives.error # NoError
    /\ JsonApplies /\ JsonGives.error # NoError
    /\ parseOut.error = NoError

\* every strategy failed, the CSV one with another message than the one thrown
C22_AllFailed ==
    /\ mapPc = "mixed"
    /\ CsvApplies /\ JsonApplies
    /\ parseOut.error # NoError
    /\ CsvGives.error # parseOut.error
    /\ JsonGives.error # parseOut.error

(***************************************************************************)
(* C23                                                                     *)
(***************************************************************************)
\* the tallies of a result against its lists and the input events
TalliesAgree(result) ==
    /\ result.summary.highRiskCount + result.summary.mediumRiskCount
          + result.summary.lowRiskCount = result.summary.anomalyCount
    /\ result.summary.anomalyCount = Len(result.alerts)
    /\ Len(result.alerts) = Len(result.eventRisk)
    /\ Len(result.eventRisk) = result.summary.totalEvents
    /\ result.summary.totalEvents = Len(inEvents)
    /\ result.summary.totalUsers = Cardinality(Subjects)
    /\ result.summary.highRiskCount
          = Cardinality({k \in 1..Len(result.alerts) : result.alerts[k].severity = "high"})
    /\ result.summary.mediumRiskCount
          = Cardinality({k \in 1..Len(result.alerts) : result.alerts[k].severity = "medium"})
    /\ result.summary.lowRiskCount
          = Cardinality({k \in 1..Len(result.alerts) : result.alerts[k].severity = "low"})

C24_RunDetectionGuard ==
    [][(/\ events' = events /\ settings' = settings /\ datasetInfo' = datasetInfo
        /\ upload' = upload
        /\ (events = <<>> \/ lastRun' # Null)
        /\ runDetection) =>
          IF events = <<>>
          THEN /\ parseError' = "Upload a valid login dataset before running detection."
               /\ detectionResult' = detectionResult
               /\ lastRun' = lastRun
               /\ LiveResult(detectionResult', settings') = LiveResult(detectionResult, settings)
          ELSE /\ lastRun'.events = events /\ lastRun'.settings = settings
               /\ lastRun'.sorted \in SortOutcomes(events)
               /\ detectionResult'
                     = detectIdentityTheft(events, settings, lastRun'.sorted, hostTz)
               /\ detectionResult' # Null
               /\ detectionResult'.summary.totalEvents = Len(events)
               /\ parseError' = NoParseError]_vars

\* the call on no events, made after an upload was refused
C24_Witness ==
    /\ events = <<>>
    /\ parseError = NoDatasetMessage
    /\ detectionResult = Null
    /\ datasetInfo = Null

\* the call on a dataset, after the call on no events
C24_Stored ==
    /\ events # <<>>
    /\ detectionResult # Null
    /\ parseError = NoParseError


(***************************************************************************)
(* C25                                                                     *)
(***************************************************************************)
Ordered(cfg) == cfg.warningThreshold < cfg.criticalThreshold

\* C25: starting from settings whose warning threshold is below the critical
\* one, after any sequence of warning-slider changes (10..90 by 5),
\* critical-slider changes (20..100 by 5), Reset Defaults, Discard and Apply
\* Settings, both the draft and the applied settings have
\* warningThreshold < criticalThreshold.
C25_ThresholdsOrdered == Ordered(draft) /\ Ordered(settings)

\* the warning slider was moved to its top, which pushed the critical
\* threshold up, and the result was applied
C25_Witness ==
    /\ settings = draft
    /\ draft.warningThreshold = 90
    /\ draft.criticalThreshold = 100

\* the critical slider was moved to its bottom, which pushed the warning
\* threshold down, while other thresholds are the applied ones
C25_PushedDown ==
    /\ draft.criticalThreshold = 20
    /\ draft.warningThreshold = 10
    /\ settings.warningThreshold = 90


(***************************************************************************)
(* C26                                                                     *)
(***************************************************************************)
RowOf(item) == <<item.rowId, item.userId, item.timestamp>>
RowsOfResult(result) == {RowOf(result.eventRisk[i]) : i \in 1..Len(result.eventRisk)}
RowsOfEvents(evs) ==
    {<<evs[i].rowId, evs[i].user_id, evs[i].timestamp>> : i \in 1..Len(evs)}

ComputedFrom(result, evs) ==
    /\ result.summary.totalEvents = Len(evs)
    /\ Len(result.eventRisk) = Len(evs)
    /\ RowsOfResult(result) = RowsOfEvents(evs)

\* C26: in every reachable state of the DetectionContext, under every
\* interleaving of an in-flight uploadFile with runDetection, addEvent,
\* loadEvents, clearDataset and setSettings, a non-null detectionResult was
\* computed from the current events list: its summary.totalEvents is
\* events.length and its eventRisk entries are exactly the rows of events.
C26_ResultOfCurrentEvents ==
    detectionResult # Null => ComputedFrom(detectionResult, events)

\* what does hold: a stored result was computed from the events of the last
\* runDetection, which an upload completing afterwards may have replaced
C26_ResultOfLastRun ==
    detectionResult # Null =>
        /\ lastRun # Null
        /\ ComputedFrom(detectionResult, lastRun.events)
        /\ (lastRun.events # events => datasetInfo # Null /\ datasetInfo.uploadedAtLabel = "Uploaded just now")


(***************************************************************************)
(* C27                                                                     *)
(***************************************************************************)
\* the normalized header is an alias of `field` and of no other field
ExactOnlyFor(header, field) ==
    /\ NormalizeHeader(header) \in Range(COLUMN_ALIASES[field])
    /\ \A other \in Range(allFields) \ {field} :
          NormalizeHeader(header) \notin Range(COLUMN_ALIASES[other])

FieldsBefore(field) ==
    {allFields[j] : j \in {k \in 1..Len(allFields) :
                              \E m \in 1..Len(allFields) : k < m /\ allFields[m] = field}}

\* C27: if some input header's normalized form equals an alias of canonical
\* field F and no alias of any other field, autoMapColumns maps F: the
\* substring or token-overlap pass of an earlier field never claims that
\* header away from F.
C27_ExactHeaderKeepsItsField ==
    mapPc \in {"map", "remap"} =>
        \A i \in 1..Len(hdrs) : \A field \in Range(allFields) :
            ExactOnlyFor(hdrs[i], field) => field \in DOMAIN colMapping.mapped

\* what does hold: a field with such a header is left unmapped only when every
\* position holding one was claimed by a field processed before it
C27_LostOnlyToEarlierField ==
    mapPc \in {"map", "remap"} =>
        \A i \in 1..Len(hdrs) : \A field \in Range(allFields) :
            (ExactOnlyFor(hdrs[i], field) /\ field \notin DOMAIN colMapping.mapped) =>
                /\ Cardinality({g \in FieldsBefore(field) :
                                   /\ g \in DOMAIN colMapping.mapped
                                   /\ ExactOnlyFor(colMapping.mapped[g], field)})
                     >= Cardinality({p \in 1..Len(hdrs) : ExactOnlyFor(hdrs[p], field)})


(***************************************************************************)
(* C28                                                                     *)
(***************************************************************************)
\* rowId of the k-th element is k: events[i].rowId = i + 1 for 0-based i
NumberedFromOne(evs) == \A k \in 1..Len(evs) : evs[k].rowId = k

\* C28: after any sequence of successful uploadFile, loadEvents of a generated
\* sample, addEvent and clearDataset operations, events[i].rowId = i + 1 for
\* every 0-based index i: row ids are distinct and contiguous from 1, for each
\* parser (the text-table parser numbers the surviving rows only) and after
\* manual additions.
C28_RowIdsContiguous == NumberedFromOne(events)

\* the same for what each parser returns, over the documents of every header list
C28_ParsersNumberRows ==
    (mapPc \in {"csv", "json", "root", "text", "mixed"} /\ parseOut.error = NoError)
        => NumberedFromOne(parseOut.events)

\* a manual entry was added to the rows of a text table whose repeated header
\* row was skipped
C28_Witness ==
    /\ datasetInfo # Null
    /\ datasetInfo.fileName = "report.pdf"
    /\ datasetInfo.uploadedAtLabel = "Updated just now"
    /\ Len(events) = 2
    /\ Len(NonBlankLines(GoodPdf.text)) = 3


(***************************************************************************)
(* C29                                                                     *)
(***************************************************************************)
\* what setSettings must leave alone in the entries of a result
ScoreRow(item) == <<item.rowId, item.score, item.reasons>>
ScoreRows(result) == {ScoreRow(result.eventRisk[k]) : k \in 1..Len(result.eventRisk)}
RowIds(result) == {result.eventRisk[k].rowId : k \in 1..Len(result.eventRisk)}

LiveKeepsScores(stored, cfg) ==
    LET live == LiveResult(stored, cfg)
    IN  IF stored = Null THEN live = Null
        ELSE /\ Len(live.eventRisk) = Len(stored.eventRisk)
             /\ ScoreRows(live) = ScoreRows(stored)
             /\ RowIds(live) = RowIds(stored)
             /\ live.hourlyRiskTrend = stored.hourlyRiskTrend
             /\ live.dailyAlertTrend = stored.dailyAlertTrend

\* C29: setSettings changes only settings and what is derived from the
\* thresholds: events, datasetInfo and the stored detectionResult are
\* unchanged, and in liveResult every eventRisk score and reasons list, the
\* set of rowIds, hourlyRiskTrend and dailyAlertTrend equal those of the
\* stored result, also when a non-threshold parameter is changed; the stored
\* scores remain those of the last runDetection.
C29_SetSettingsFrame ==
    [][(/\ upload' = upload
        /\ \E next \in SettingsPool : setSettings(next)) =>
          /\ events' = events
          /\ datasetInfo' = datasetInfo
          /\ detectionResult' = detectionResult
          /\ parseError' = parseError
          /\ lastRun' = lastRun
          /\ LiveKeepsScores(detectionResult', settings')
          /\ (detectionResult # Null =>
                detectionResult' = detectIdentityTheft(lastRun.events, lastRun.settings,
                                                       lastRun.sorted, hostTz))]_vars

\* the rule parameters were changed after a run whose scores a new run with
\* them would not give
C29_Witness ==
    /\ detectionResult # Null
    /\ settings = TightSettings
    /\ lastRun.settings = DEFAULT_SETTINGS
    /\ lastRun.events = events
    /\ ScoreRows(detectIdentityTheft(events, settings, lastRun.sorted, hostTz))
          # ScoreRows(detectionResult)
    /\ ScoreRows(LiveResult(detectionResult, settings)) = ScoreRows(detectionResult)


(***************************************************************************)
(* C30                                                                     *)
(***************************************************************************)
\* the messages that are no parser's
ProviderMessages == {NoParseError, NoDatasetMessage, UnsupportedMessage}

\* C30: an uploadFile call that fails, by an unsupported file extension or by a
\* parser throwing, sets parseError to the error's message and leaves events
\* and datasetInfo as they were; uploadFile replaces events and datasetInfo
\* only together, and only after a successful parse.
C30_FailedUploadKeepsDataset ==
    [][/\ (\E file \in Files : uploadFileStart(file)) =>
            /\ events' = events
            /\ datasetInfo' = datasetInfo
            /\ (upload' = NoUpload <=> parseError' = UnsupportedMessage)
            /\ (upload' # NoUpload => Supported(upload') /\ parseError' = NoParseError)
       /\ (upload # NoUpload /\ upload' = NoUpload /\ uploadFileFinish) =>
            IF ParseFile(upload).error # NoError
            THEN /\ parseError' = ParseFile(upload).error
                 /\ parseError' \notin ProviderMessages
                 /\ events' = events
                 /\ datasetInfo' = datasetInfo
            ELSE /\ events' = ParseFile(upload).events
                 /\ events' # <<>>
                 /\ datasetInfo' # Null
                 /\ datasetInfo'.fileName = upload.name
                 /\ datasetInfo'.headers = ParseFile(upload).headers
                 /\ parseError' = parseError]_vars

\* a parser threw while a dataset was loaded: its message is shown and the
\* dataset is still there
C30_Witness ==
    /\ upload = NoUpload
    /\ parseError \notin ProviderMessages
    /\ events # <<>>
    /\ datasetInfo # Null
    /\ datasetInfo.fileName = "sample-login-activity.csv"

\* a file with an unsupported extension was refused while a dataset was loaded
C30_Refused ==
    /\ parseError = UnsupportedMessage
    /\ events # <<>>
    /\ datasetInfo # Null

====
